---------------------------- MODULE Spec2Model ----------------------------
(***************************************************************************)
(* A model of the Grid State Engine of ng-headless-datagrid                *)
(* (GridStateService, grid-state.service.ts).                              *)
(*                                                                         *)
(* The service keeps its state in writable signals (_data, _columns,       *)
(* _options, _sort, _filters, _pagination, _selection) and derives `rows`  *)
(* and `processedRows` from them with computed().  A computed is evaluated *)
(* when it is read: every mutating method is one action below, and the     *)
(* read of state() / processedRows() is an action of its own (ReadState),  *)
(* because processedRows writes the pagination totals back into            *)
(* _pagination while it is evaluated (updatePaginationTotals).  That write *)
(* is modelled as taking effect, as the code is written; a computed that   *)
(* is read again with nothing changed returns what it returned before and  *)
(* writes the same totals, so ReadState stands for every read.             *)
(*                                                                         *)
(* JavaScript values are modelled as records [t, n, s]: a number carries   *)
(* its value in n, a string its characters in s (a sequence of             *)
(* one-character strings), null and undefined carry nothing.               *)
(***************************************************************************)
EXTENDS Integers, Sequences, FiniteSets, TLC

(***************************************************************************)
(* Bounds of the model.                                                    *)
(***************************************************************************)
MaxRows == 5
MaxPageSize == 2
MaxPage == 3
MaxSelectRows == 2
MaxIndex == 6

(***************************************************************************)
(* JavaScript values.                                                      *)
(***************************************************************************)
Num(x) == [t |-> "num", n |-> x, s |-> <<>>]
Str(cs) == [t |-> "str", n |-> 0, s |-> cs]
Null == [t |-> "null", n |-> 0, s |-> <<>>]
Undef == [t |-> "undef", n |-> 0, s |-> <<>>]
NaN == [t |-> "nan", n |-> 0, s |-> <<>>]

\* value == null  (loose equality: null or undefined)
IsNullish(v) == v.t \in {"null", "undef"}

\* a ?? b
Coalesce(a, b) == IF IsNullish(a) THEN b ELSE a

Digits == <<"0", "1", "2", "3", "4", "5", "6", "7", "8", "9">>
LowerChars == Digits \o <<"a", "b", "c", "d", "e", "f", "g", "h", "i", "j",
                          "k", "l", "m", "n", "o", "p", "q", "r", "s", "t",
                          "u", "v", "w", "x", "y", "z">>
UpperChars == <<"A", "B", "C", "D", "E", "F", "G", "H", "I", "J", "K", "L",
                "M", "N", "O", "P", "Q", "R", "S", "T", "U", "V", "W", "X",
                "Y", "Z">>

IndexOf(seq, c) == IF \E i \in 1..Len(seq) : seq[i] = c
                   THEN CHOOSE i \in 1..Len(seq) : seq[i] = c
                   ELSE 0

\* String.prototype.toLowerCase, one character
LowerChar(c) == IF IndexOf(UpperChars, c) > 0
                THEN LowerChars[10 + IndexOf(UpperChars, c)]
                ELSE c

ToLowerCase(cs) == [i \in 1..Len(cs) |-> LowerChar(cs[i])]

RECURSIVE DigitsOf(_)
DigitsOf(x) == IF x < 10 THEN <<Digits[x + 1]>>
               ELSE DigitsOf(x \div 10) \o <<Digits[(x % 10) + 1]>>

\* String(value), as characters
ToStr(v) == CASE v.t = "num" -> IF v.n < 0 THEN <<"-">> \o DigitsOf(-v.n) ELSE DigitsOf(v.n)
              [] v.t = "str" -> v.s
              [] v.t = "null" -> <<"n", "u", "l", "l">>
              [] v.t = "undef" -> <<"u", "n", "d", "e", "f", "i", "n", "e", "d">>
              [] OTHER -> <<"N", "a", "N">>

IsDigitString(cs) == \A i \in 1..Len(cs) : IndexOf(Digits, cs[i]) > 0

RECURSIVE ParseDigits(_)
ParseDigits(cs) == IF cs = <<>> THEN 0
                   ELSE 10 * ParseDigits(SubSeq(cs, 1, Len(cs) - 1))
                        + (IndexOf(Digits, cs[Len(cs)]) - 1)

\* Number(value): a number is itself, '' and null are 0, a string of digits
\* is its value, anything else is NaN
ToNumber(v) == CASE v.t = "num" -> v
                 [] v.t = "null" -> Num(0)
                 [] v.t = "str" -> IF IsDigitString(v.s) THEN Num(ParseDigits(v.s)) ELSE NaN
                 [] OTHER -> NaN

\* a > b and a < b on numbers: false as soon as one side is NaN
NumGreater(a, b) == a.t = "num" /\ b.t = "num" /\ a.n > b.n
NumLess(a, b) == a.t = "num" /\ b.t = "num" /\ a.n < b.n

\* String.prototype.startsWith / endsWith / includes
StartsWith(cs, p) == Len(p) <= Len(cs) /\ SubSeq(cs, 1, Len(p)) = p
EndsWith(cs, p) == Len(p) <= Len(cs) /\ SubSeq(cs, Len(cs) - Len(p) + 1, Len(cs)) = p
Includes(cs, p) == \E i \in 0..(Len(cs) - Len(p)) : SubSeq(cs, i + 1, i + Len(p)) = p

\* String.prototype.localeCompare on digits and ASCII letters: letters are
\* ordered without regard to case first, and strings equal up to case put
\* the lower-case letter first
CharRank(c) == IndexOf(LowerChars, LowerChar(c))

RECURSIVE ComparePrimary(_, _)
ComparePrimary(a, b) ==
    IF a = <<>> /\ b = <<>> THEN 0
    ELSE IF a = <<>> THEN -1
    ELSE IF b = <<>> THEN 1
    ELSE IF CharRank(Head(a)) < CharRank(Head(b)) THEN -1
    ELSE IF CharRank(Head(a)) > CharRank(Head(b)) THEN 1
    ELSE ComparePrimary(Tail(a), Tail(b))

RECURSIVE CompareCase(_, _)
CompareCase(a, b) ==
    IF a = <<>> \/ b = <<>> THEN 0
    ELSE IF Head(a) = Head(b) THEN CompareCase(Tail(a), Tail(b))
    ELSE IF IndexOf(UpperChars, Head(b)) > 0 THEN -1
    ELSE 1

LocaleCompare(a, b) == IF ComparePrimary(a, b) # 0 THEN ComparePrimary(a, b)
                       ELSE CompareCase(a, b)

Min(a, b) == IF a < b THEN a ELSE b
Max(a, b) == IF a > b THEN a ELSE b

\* Math.ceil(a / b) for a >= 0 and b >= 1
CeilDiv(a, b) == (a + b - 1) \div b

\* Array.prototype.slice(start, end)
Slice(seq, start, end) ==
    LET len == Len(seq)
        from == IF start < 0 THEN Max(len + start, 0) ELSE Min(start, len)
        to == IF end < 0 THEN Max(len + end, 0) ELSE Min(end, len)
    IN  SubSeq(seq, from + 1, to)

(***************************************************************************)
(* Records (the caller's data) and column definitions.                     *)
(* A record is a function from field names to values; a field the record   *)
(* does not have reads as undefined.                                       *)
(***************************************************************************)
Fields == {"id", "_id", "uuid", "age", "name"}

Rec(id, uid, uuid, age, name) ==
    [f \in Fields |-> CASE f = "id" -> id
                        [] f = "_id" -> uid
                        [] f = "uuid" -> uuid
                        [] f = "age" -> age
                        [] OTHER -> name]

\* obj[field]
Field(rec, f) == IF f \in DOMAIN rec THEN rec[f] ELSE Undef

Ages == <<30, 25, 25, 40, 25, 30>>
Names == << <<"A", "n", "n">>, <<"b", "o", "b">>, <<"A", "l">>,
            <<"a", "n", "n">>, <<"B", "o">>, <<"C", "y">> >>

\* The i-th record of the first family: {id: i, age, name}.  Its first
\* three records are {id:1, age:30}, {id:2, age:25}, {id:3, age:25}.
RecordA(i) == Rec(Num(i), Undef, Undef,
                  Num(Ages[((i - 1) % Len(Ages)) + 1]),
                  Str(Names[((i - 1) % Len(Names)) + 1]))

\* The second family: records whose identity comes from _id, from uuid or
\* from nothing at all, and cells that are null.
RecordsB == << Rec(Num(1), Undef, Undef, Num(30), Str(<<"A", "n", "n">>)),
               Rec(Undef, Undef, Undef, Null, Str(<<"b", "o", "b">>)),
               Rec(Null, Num(7), Num(9), Num(25), Null),
               Rec(Undef, Undef, Num(0), Num(25), Str(<<"A", "l">>)) >>

DataA == {[i \in 1..n |-> RecordA(i)] : n \in 0..MaxRows}
DataB == {SubSeq(RecordsB, 1, n) : n \in 1..Min(MaxRows, Len(RecordsB))}

\* the data of the filter and page runs: no record, two records, the
\* three records of the scenarios, and the longest data
DataPaged == {d \in DataA : Len(d) \in {0, 2, 3, MaxRows}}

\* the data of the selection runs: the short prefixes of both families
DataSelect == {d \in DataA \cup DataB : Len(d) <= MaxSelectRows}

\* Column definitions handed to initialize.  accessor is "" (none), a
\* field name, or "fn" (a function of the record); filterFn and
\* sortCompareFn say whether the column brings its own.
Column(id, accessor, filterFn, sortCompareFn) ==
    [id |-> id, accessor |-> accessor, filterFn |-> filterFn,
     sortCompareFn |-> sortCompareFn]

\* id and name read the field named like the column, age has a field-name
\* accessor, senior has a function accessor (row => row.age > 25 ? 1 : 0),
\* a filterFn ((value, filterValue) => value === filterValue) and a
\* sortCompareFn ((a, b) => b - a).
GridColumns == << Column("id", "", FALSE, FALSE),
                  Column("age", "age", FALSE, FALSE),
                  Column("name", "", FALSE, FALSE),
                  Column("senior", "fn", TRUE, TRUE) >>

\* the column sets handed to initialize: all four columns, or the first
\* three (a filter or a sort key on senior then names no column)
ColumnSets == {GridColumns, SubSeq(GridColumns, 1, 3)}

AccessorFn(rec) == IF NumGreater(ToNumber(Field(rec, "age")), Num(25)) THEN Num(1) ELSE Num(0)
ColumnFilterFn(value, filterValue) == value = filterValue
ColumnSortCompareFn(a, b) == b.n - a.n

\* columns.find(c => c.id === columnId): its index, 0 when there is none
FindColumn(cols, columnId) ==
    IF \E i \in 1..Len(cols) : cols[i].id = columnId
    THEN CHOOSE i \in 1..Len(cols) :
            /\ cols[i].id = columnId
            /\ \A j \in 1..(i - 1) : cols[j].id # columnId
    ELSE 0

DefaultPageSize == 10

(***************************************************************************)
(* State.  data .. selection are the service's signals.  fresh, lastSet,   *)
(* lastSort and selHist record the history of calls, for stating           *)
(* properties: whether state() has been read since the last method call,   *)
(* the last setFilter/clearFilter per column, the last sortBy with the     *)
(* direction the column had before it, and selHist: "none" when the        *)
(* selection was in its default state at the last initialize and no        *)
(* selection method has changed it since, "only" when selectRow and        *)
(* selectAllRows alone have changed it since (a call that returns early    *)
(* changes nothing), "other" otherwise.  lastImport records the last       *)
(* importState call: the kind of its input and whether sort, filters and   *)
(* selection all held something when it was made.                          *)
(* virt holds the signals of VirtualizationService                         *)
(* (virtualization.service.ts) and lastCall its last scrollToItem /        *)
(* scrollToItemIfNeeded call: the index, what it returned and whether the  *)
(* index lay within the visible range when it was made.                    *)
(* smart holds the signals, the search subject and the debounced           *)
(* subscriptions of SmartFilteringService (smart-filtering.service.ts);    *)
(* saved records, per preset id, the filter list and the search term that  *)
(* were current when saveFilterPreset made the preset, and lastSmart the   *)
(* last applyFilters, setGlobalSearch or loadFilterPreset call with what   *)
(* it was given and what it found or returned, when no other call to the   *)
(* service came after it.                                                  *)
(* colman holds the signals of ColumnManagementService                     *)
(* (column-management.service.ts) and lastColumn its last removeColumn,    *)
(* lockColumn, reorderColumns or moveColumn call: what it was given and,   *)
(* for reorderColumns and moveColumn, the order list it found and the      *)
(* reorder events it emitted.                                              *)
(* lastGrid records the last setFilter, clearFilter, sortBy, selectRow or   *)
(* selectAllRows call of the runs that mix selection with filtering,       *)
(* sorting and paging, when no other call came after it: the method, the   *)
(* mode and the options it found, and the selected ids that no filtered    *)
(* row had.                                                                *)
(* adapter holds the fields of a WebSocketDataSourceAdapter                *)
(* (data-source-adapters.service.ts) together with the sockets it has made *)
(* and the timers it has set; connectedAfter says whether it made a socket *)
(* after disconnect() had returned.  Its data and its message queue are    *)
(* left out.                                                               *)
(***************************************************************************)
VARIABLES data, columns, options, sort, filters, pagination, selection,
          fresh, lastSet, lastSort, selHist, lastImport, virt, lastCall,
          smart, saved, lastSmart, colman, lastColumn, lastGrid, adapter

svars == <<data, columns, options, sort, filters, pagination, selection>>
vars == <<data, columns, options, sort, filters, pagination, selection,
          fresh, lastSet, lastSort, selHist, lastImport, virt, lastCall,
          smart, saved, lastSmart, colman, lastColumn, lastGrid, adapter>>

\* the SmartFilteringService and the record of its calls
smartvars == <<smart, saved, lastSmart>>

\* the ColumnManagementService and the record of its calls
columnvars == <<colman, lastColumn>>

\* what every method of GridStateService but importState leaves alone: the
\* record of the last import, and the VirtualizationService
outside == <<lastImport, virt, lastCall, smartvars, columnvars, adapter>>

\* what the methods of VirtualizationService leave alone
gridvars == <<data, columns, options, sort, filters, pagination, selection,
              fresh, lastSet, lastSort, selHist, lastImport, smartvars, columnvars,
              lastGrid, adapter>>

\* what the methods of SmartFilteringService leave alone
notsmart == <<data, columns, options, sort, filters, pagination, selection,
              fresh, lastSet, lastSort, selHist, lastImport, virt, lastCall,
              columnvars, lastGrid, adapter>>

\* what the methods of ColumnManagementService leave alone
notcolumn == <<data, columns, options, sort, filters, pagination, selection,
               fresh, lastSet, lastSort, selHist, lastImport, virt, lastCall,
               smartvars, lastGrid, adapter>>

\* what the WebSocketDataSourceAdapter leaves alone
notadapter == <<data, columns, options, sort, filters, pagination, selection,
                fresh, lastSet, lastSort, selHist, lastImport, virt, lastCall,
                smartvars, columnvars, lastGrid>>

\* a Record<string, number> with no key
NoWidths == [id \in {} |-> 0]

InitialColumns == [columns |-> <<>>, columnGroups |-> <<>>, columnOrder |-> <<>>,
                   columnWidths |-> NoWidths,
                   lockedColumns |-> [left |-> <<>>, right |-> <<>>],
                   hiddenColumns |-> <<>>]

NoColumnCall == [op |-> "none"]

\* no adapter constructed yet.  ws is the index of the socket in sockets, 0
\* for null; reconnectTimer is the handle of the last timer set, 0 for
\* undefined; timers holds the handles of the timers still pending
NoAdapter == [constructed |-> FALSE, url |-> "", reconnect |-> FALSE,
              maxReconnectAttempts |-> 0, ws |-> 0, sockets |-> <<>>,
              connected |-> FALSE, reconnectAttempts |-> 0, reconnectTimer |-> 0,
              timers |-> {}, disconnected |-> FALSE, connectedAfter |-> FALSE]

\* the record of a GridStateService call: the method, the selection mode and
\* the enableSorting and enableFiltering options it found, and the ids that
\* were selected but on no row of processedRows when it was made
NoGridCall == [op |-> "none", mode |-> "none", sorting |-> FALSE, filtering |-> FALSE,
               absent |-> {}]

\* the global search configuration as constructed, and
\* (config.minLength || 1)
DefaultMinLength == 1

\* a debounced subscription to globalSearch$: the value waiting for the
\* timer (pending), and the last value distinctUntilChanged let through
Pipeline(pending, value, emitted, last) ==
    [pending |-> pending, value |-> value, emitted |-> emitted, last |-> last]

InitialSmart == [advancedFilters |-> <<>>, filterPresets |-> <<>>,
                 globalSearch |-> <<>>, minLength |-> DefaultMinLength,
                 searchableColumns |-> <<>>, subject |-> <<>>,
                 subscriptions |-> <<>>, nextId |-> 1]

NoSmartCall == [op |-> "none"]

\* the signals of VirtualizationService as constructed
DefaultContainerHeight == 400
DefaultItemHeight == 40
DefaultOverscan == 5

NoImport == [kind |-> "none", held |-> FALSE]
NoCall == [op |-> "none", index |-> 0, result |-> Undef, within |-> FALSE]

FilterColumnIds == {"age", "name", "senior"}

NoFilterSet == [set |-> FALSE, value |-> Undef, operator |-> ""]

Init ==
    /\ data = <<>>
    /\ columns = <<>>
    /\ options = [enableSorting |-> FALSE, enableFiltering |-> FALSE,
                  enablePagination |-> FALSE, multiSort |-> FALSE]
    /\ sort = <<>>
    /\ filters = <<>>
    /\ pagination = [currentPage |-> 1, pageSize |-> DefaultPageSize,
                     totalItems |-> 0, totalPages |-> 0]
    /\ selection = [mode |-> "none", selectedRows |-> <<>>, selectedIds |-> <<>>,
                    selectAll |-> FALSE, indeterminate |-> FALSE]
    /\ fresh = FALSE
    /\ lastSet = [c \in FilterColumnIds |-> NoFilterSet]
    /\ lastSort = [columnId |-> "", direction |-> "", before |-> "", enabled |-> FALSE]
    /\ selHist = "none"
    /\ lastImport = NoImport
    /\ virt = [containerHeight |-> DefaultContainerHeight,
               itemHeight |-> DefaultItemHeight,
               overscan |-> DefaultOverscan, scrollTop |-> 0, totalItems |-> 0]
    /\ lastCall = NoCall
    /\ smart = InitialSmart
    /\ saved = <<>>
    /\ lastSmart = NoSmartCall
    /\ colman = InitialColumns
    /\ lastColumn = NoColumnCall
    /\ lastGrid = NoGridCall
    /\ adapter = NoAdapter

(***************************************************************************)
(* Derived views.                                                          *)
(***************************************************************************)
\* obj.id ?? obj._id ?? obj.uuid ?? index
getRowId(item, index) ==
    Coalesce(Field(item, "id"),
             Coalesce(Field(item, "_id"),
                      Coalesce(Field(item, "uuid"), Num(index))))

SeqContains(seq, x) == \E i \in 1..Len(seq) : seq[i] = x

\* a variant that flags no row selected
RowsOfUnflagged(d, sel) ==
    [i \in 1..Len(d) |-> [id |-> getRowId(d[i], i - 1), data |-> d[i], index |-> i - 1,
                          selected |-> FALSE]]

\* rows = computed(...): index is 0-based, as in Array.prototype.map
RowsOf(d, sel) ==
    [i \in 1..Len(d) |->
        [id |-> getRowId(d[i], i - 1), data |-> d[i], index |-> i - 1,
         selected |-> SeqContains(sel.selectedIds, getRowId(d[i], i - 1))]]

rows == RowsOf(data, selection)

getCellValue(rec, column) ==
    IF column.accessor # ""
    THEN IF column.accessor = "fn" THEN AccessorFn(rec) ELSE Field(rec, column.accessor)
    ELSE Field(rec, column.id)

defaultFilter(value, filterValue, operator) ==
    IF IsNullish(value) THEN FALSE
    ELSE LET strValue == ToLowerCase(ToStr(value))
             strFilter == ToLowerCase(ToStr(filterValue))
         IN  CASE operator = "equals" -> strValue = strFilter
               [] operator = "contains" -> Includes(strValue, strFilter)
               [] operator = "startsWith" -> StartsWith(strValue, strFilter)
               [] operator = "endsWith" -> EndsWith(strValue, strFilter)
               [] operator = "greaterThan" -> NumGreater(ToNumber(value), ToNumber(filterValue))
               [] operator = "lessThan" -> NumLess(ToNumber(value), ToNumber(filterValue))
               [] OTHER -> Includes(strValue, strFilter)

\* the body of filters.every(filter => ...) for one row and one filter
FilterPasses(row, filter, cols) ==
    LET c == FindColumn(cols, filter.columnId)
    IN  IF c = 0 THEN TRUE
        ELSE LET value == getCellValue(row.data, cols[c])
             IN  IF cols[c].filterFn
                 THEN ColumnFilterFn(value, filter.value)
                 ELSE defaultFilter(value, filter.value,
                                    IF filter.operator = "" THEN "contains" ELSE filter.operator)

\* a row kept as soon as one filter passes it (filters.some for filters.every)
RowPassesAnyFilter(row, fs, cols) == \E k \in 1..Len(fs) : FilterPasses(row, fs[k], cols)

RowPassesFilters(row, fs, cols) == \A k \in 1..Len(fs) : FilterPasses(row, fs[k], cols)

RECURSIVE FilterSeq(_, _, _)
FilterSeq(rs, fs, cols) ==
    IF rs = <<>> THEN <<>>
    ELSE IF RowPassesFilters(Head(rs), fs, cols)
         THEN <<Head(rs)>> \o FilterSeq(Tail(rs), fs, cols)
         ELSE FilterSeq(Tail(rs), fs, cols)

applyFilters(rs, fs, cols) == IF Len(fs) = 0 THEN rs ELSE FilterSeq(rs, fs, cols)

defaultSort(a, b) ==
    IF IsNullish(a) /\ IsNullish(b) THEN 0
    ELSE IF IsNullish(a) THEN -1
    ELSE IF IsNullish(b) THEN 1
    ELSE IF a.t = "str" /\ b.t = "str" THEN LocaleCompare(a.s, b.s)
    ELSE IF a.t = "num" /\ b.t = "num" THEN a.n - b.n
    ELSE LocaleCompare(ToStr(a), ToStr(b))

\* the comparator without the direction: 'desc' compares like 'asc'
RECURSIVE SortCompareNoDirection(_, _, _, _)
SortCompareNoDirection(a, b, sorts, cols) ==
    IF sorts = <<>> THEN 0
    ELSE LET c == FindColumn(cols, Head(sorts).columnId)
         IN  IF c = 0 THEN SortCompareNoDirection(a, b, Tail(sorts), cols)
             ELSE LET aValue == getCellValue(a.data, cols[c])
                      bValue == getCellValue(b.data, cols[c])
                      comparison == IF cols[c].sortCompareFn
                                    THEN ColumnSortCompareFn(aValue, bValue)
                                    ELSE defaultSort(aValue, bValue)
                  IN  IF comparison # 0 THEN comparison
                      ELSE SortCompareNoDirection(a, b, Tail(sorts), cols)

\* the comparator handed to Array.prototype.sort
RECURSIVE SortCompare(_, _, _, _)
SortCompare(a, b, sorts, cols) ==
    IF sorts = <<>> THEN 0
    ELSE LET c == FindColumn(cols, Head(sorts).columnId)
         IN  IF c = 0 THEN SortCompare(a, b, Tail(sorts), cols)
             ELSE LET aValue == getCellValue(a.data, cols[c])
                      bValue == getCellValue(b.data, cols[c])
                      comparison == IF cols[c].sortCompareFn
                                    THEN ColumnSortCompareFn(aValue, bValue)
                                    ELSE defaultSort(aValue, bValue)
                  IN  IF comparison # 0
                      THEN IF Head(sorts).direction = "asc" THEN comparison ELSE -comparison
                      ELSE SortCompare(a, b, Tail(sorts), cols)

\* Array.prototype.sort is stable: an element moves left only past the
\* elements the comparator puts strictly after it
RECURSIVE InsertSorted(_, _, _, _)
InsertSorted(sorted, x, sorts, cols) ==
    IF sorted = <<>> THEN <<x>>
    ELSE IF SortCompare(sorted[Len(sorted)], x, sorts, cols) > 0
         THEN InsertSorted(SubSeq(sorted, 1, Len(sorted) - 1), x, sorts, cols)
              \o <<sorted[Len(sorted)]>>
         ELSE sorted \o <<x>>

RECURSIVE StableSort(_, _, _)
StableSort(rs, sorts, cols) ==
    IF rs = <<>> THEN <<>>
    ELSE InsertSorted(StableSort(SubSeq(rs, 1, Len(rs) - 1), sorts, cols),
                      rs[Len(rs)], sorts, cols)

applySorting(rs, sorts, cols) == IF Len(sorts) = 0 THEN rs ELSE StableSort(rs, sorts, cols)

\* the slice taken one page too far (currentPage for currentPage - 1)
applyPaginationOffByOne(rs, opts, pag) ==
    IF ~opts.enablePagination THEN rs
    ELSE LET startIndex == pag.currentPage * pag.pageSize
             endIndex == startIndex + pag.pageSize
         IN  Slice(rs, startIndex, endIndex)

applyPagination(rs, opts, pag) ==
    IF ~opts.enablePagination THEN rs
    ELSE LET startIndex == (pag.currentPage - 1) * pag.pageSize
             endIndex == startIndex + pag.pageSize
         IN  Slice(rs, startIndex, endIndex)

\* the totals with Math.floor for Math.ceil
updatePaginationTotalsFloor(pag, totalFilteredItems) ==
    [pag EXCEPT !.totalItems = totalFilteredItems,
                !.totalPages = totalFilteredItems \div pag.pageSize]

updatePaginationTotals(pag, totalFilteredItems) ==
    [pag EXCEPT !.totalItems = totalFilteredItems,
                !.totalPages = CeilDiv(totalFilteredItems, pag.pageSize)]

\* the rows after the filter and sort stages of processedRows
filteredSorted == applySorting(applyFilters(rows, filters, columns), sort, columns)

\* the value processedRows() returns
processedRows ==
    applyPagination(filteredSorted, options,
                    updatePaginationTotals(pagination, Len(filteredSorted)))

(***************************************************************************)
(* Operations.                                                             *)
(***************************************************************************)
DefaultSelection(sel) ==
    /\ sel.selectedIds = <<>>
    /\ sel.selectedRows = <<>>
    /\ ~sel.selectAll
    /\ ~sel.indeterminate

\* initialize(data, columns, options): opts are the options after the
\* defaults are merged in, pageSize is options.pageSize (0: not given) and
\* selectionMode is options.selectionMode ("": not given).  No snapshot
\* is persisted (options.persistState is not set).
Initialize(d, cols, opts, pageSize, selectionMode) ==
    /\ data' = d
    /\ columns' = cols
    /\ options' = opts
    /\ pagination' = [pagination EXCEPT
                        !.pageSize = IF pageSize # 0 THEN pageSize ELSE DefaultPageSize]
    /\ selection' = [selection EXCEPT
                        !.mode = IF selectionMode # "" THEN selectionMode ELSE "none"]
    /\ fresh' = FALSE
    /\ selHist' = IF DefaultSelection(selection) THEN "none" ELSE "other"
    /\ UNCHANGED <<sort, filters, lastSet, lastSort, outside>>

\* sorts.findIndex(s => s.columnId === columnId), 1-based, 0 for -1
SortIndex(sorts, columnId) ==
    IF \E i \in 1..Len(sorts) : sorts[i].columnId = columnId
    THEN CHOOSE i \in 1..Len(sorts) :
            /\ sorts[i].columnId = columnId
            /\ \A j \in 1..(i - 1) : sorts[j].columnId # columnId
    ELSE 0

\* getSortDirection(columnId): "" stands for null
getSortDirection(sorts, columnId) ==
    IF SortIndex(sorts, columnId) > 0 THEN sorts[SortIndex(sorts, columnId)].direction ELSE ""

\* the toggle started at 'desc'
NewDirectionDescFirst(currentDirection, direction) ==
    IF direction # "" THEN direction
    ELSE IF currentDirection = "desc" THEN "asc" ELSE "desc"

\* the direction sortBy gives the column: direction "" is no direction
NewDirection(currentDirection, direction) ==
    IF direction # "" THEN direction
    ELSE IF currentDirection = "asc" THEN "desc" ELSE "asc"

\* sortBy that takes a column already in the list out and appends it
SortByUpdateMoveToEnd(sorts, columnId, direction, multiSort) ==
    LET existingIndex == SortIndex(sorts, columnId)
        currentDirection == IF existingIndex > 0 THEN sorts[existingIndex].direction ELSE ""
        newDirection == NewDirection(currentDirection, direction)
        others == SelectSeq(sorts, LAMBDA e : e.columnId # columnId)
    IN  IF multiSort
        THEN Append(others, [columnId |-> columnId, direction |-> newDirection])
        ELSE <<[columnId |-> columnId, direction |-> newDirection]>>

\* the updater sortBy hands to _sort.update
SortByUpdate(sorts, columnId, direction, multiSort) ==
    LET existingIndex == SortIndex(sorts, columnId)
        currentDirection == IF existingIndex > 0 THEN sorts[existingIndex].direction ELSE ""
        newDirection == NewDirection(currentDirection, direction)
    IN  IF multiSort
        THEN IF existingIndex > 0
             THEN [sorts EXCEPT ![existingIndex].direction = newDirection]
             ELSE Append(sorts, [columnId |-> columnId, direction |-> newDirection])
        ELSE <<[columnId |-> columnId, direction |-> newDirection]>>

SortBy(columnId, direction) ==
    /\ sort' = IF ~options.enableSorting THEN sort
               ELSE SortByUpdate(sort, columnId, direction, options.multiSort)
    /\ fresh' = FALSE
    /\ UNCHANGED <<data, columns, options, filters, pagination, selection, lastSet, selHist, outside>>

RECURSIVE DropSort(_, _)
DropSort(sorts, columnId) ==
    IF sorts = <<>> THEN <<>>
    ELSE IF Head(sorts).columnId # columnId
         THEN <<Head(sorts)>> \o DropSort(Tail(sorts), columnId)
         ELSE DropSort(Tail(sorts), columnId)

\* clearSort(columnId?): "" is no (or an empty) columnId
ClearSort(columnId) ==
    /\ sort' = IF columnId # "" THEN DropSort(sort, columnId) ELSE <<>>
    /\ fresh' = FALSE
    /\ UNCHANGED <<data, columns, options, filters, pagination, selection, lastSet, selHist, outside>>

\* filters.findIndex(f => f.columnId === columnId), 1-based, 0 for -1
FilterIndex(fs, columnId) ==
    IF \E i \in 1..Len(fs) : fs[i].columnId = columnId
    THEN CHOOSE i \in 1..Len(fs) :
            /\ fs[i].columnId = columnId
            /\ \A j \in 1..(i - 1) : fs[j].columnId # columnId
    ELSE 0

RECURSIVE DropFilter(_, _)
DropFilter(fs, columnId) ==
    IF fs = <<>> THEN <<>>
    ELSE IF Head(fs).columnId # columnId
         THEN <<Head(fs)>> \o DropFilter(Tail(fs), columnId)
         ELSE DropFilter(Tail(fs), columnId)

\* value === null || value === undefined || value === ''
IsEmptyFilterValue(value) == value.t \in {"null", "undef"} \/ value = Str(<<>>)

\* setFilter that accumulates: a filter is added even when the column has one
SetFilterUpdateAppend(fs, columnId, value, operator) ==
    IF IsEmptyFilterValue(value) THEN DropFilter(fs, columnId)
    ELSE Append(fs, [columnId |-> columnId, value |-> value, operator |-> operator])

\* the updater setFilter hands to _filters.update
SetFilterUpdate(fs, columnId, value, operator) ==
    LET existingIndex == FilterIndex(fs, columnId)
        newFilter == [columnId |-> columnId, value |-> value, operator |-> operator]
    IN  IF IsEmptyFilterValue(value) THEN DropFilter(fs, columnId)
        ELSE IF existingIndex > 0 THEN [fs EXCEPT ![existingIndex] = newFilter]
        ELSE Append(fs, newFilter)

\* a variant that resets the page whether or not filtering is enabled
SetFilterResetsPage(columnId, value, operator) ==
    LET op == IF operator = "" THEN "contains" ELSE operator
    IN  /\ filters' = IF ~options.enableFiltering THEN filters
                      ELSE SetFilterUpdate(filters, columnId, value, op)
        /\ pagination' = [pagination EXCEPT !.currentPage = 1]
        /\ lastSet' = IF ~options.enableFiltering THEN lastSet
                      ELSE [lastSet EXCEPT ![columnId] =
                               IF IsEmptyFilterValue(value) THEN NoFilterSet
                               ELSE [set |-> TRUE, value |-> value, operator |-> op]]
        /\ fresh' = FALSE
        /\ UNCHANGED <<data, columns, options, sort, selection, lastSort, selHist, outside>>

\* setFilter(columnId, value, operator = 'contains'): operator "" is an
\* operator not given
SetFilter(columnId, value, operator) ==
    LET op == IF operator = "" THEN "contains" ELSE operator
    IN  /\ filters' = IF ~options.enableFiltering THEN filters
                      ELSE SetFilterUpdate(filters, columnId, value, op)
        /\ pagination' = IF ~options.enableFiltering THEN pagination
                         ELSE [pagination EXCEPT !.currentPage = 1]
        /\ lastSet' = IF ~options.enableFiltering THEN lastSet
                      ELSE [lastSet EXCEPT ![columnId] =
                               IF IsEmptyFilterValue(value) THEN NoFilterSet
                               ELSE [set |-> TRUE, value |-> value, operator |-> op]]
        /\ fresh' = FALSE
        /\ UNCHANGED <<data, columns, options, sort, selection, lastSort, selHist, outside>>

\* clearFilter(columnId?): "" is no (or an empty) columnId
ClearFilter(columnId) ==
    /\ filters' = IF columnId # "" THEN DropFilter(filters, columnId) ELSE <<>>
    /\ lastSet' = IF columnId # "" THEN [lastSet EXCEPT ![columnId] = NoFilterSet]
                  ELSE [c \in FilterColumnIds |-> NoFilterSet]
    /\ fresh' = FALSE
    /\ UNCHANGED <<data, columns, options, sort, pagination, selection, lastSort, selHist, outside>>

SetPage(page) ==
    /\ pagination' = IF page >= 1 /\ page <= pagination.totalPages
                     THEN [pagination EXCEPT !.currentPage = page]
                     ELSE pagination
    /\ fresh' = FALSE
    /\ UNCHANGED <<data, columns, options, sort, filters, selection, lastSet, lastSort, selHist, outside>>

SetPageSize(size) ==
    /\ pagination' = [pagination EXCEPT !.pageSize = size, !.currentPage = 1]
    /\ fresh' = FALSE
    /\ UNCHANGED <<data, columns, options, sort, filters, selection, lastSet, lastSort, selHist, outside>>

RECURSIVE DropId(_, _)
DropId(ids, rowId) ==
    IF ids = <<>> THEN <<>>
    ELSE IF Head(ids) # rowId THEN <<Head(ids)>> \o DropId(Tail(ids), rowId)
         ELSE DropId(Tail(ids), rowId)

\* rs.filter(row => row.id === rowId) when keep, rs.filter(row => row.id !== rowId) otherwise
RECURSIVE RowsWithId(_, _, _)
RowsWithId(rs, rowId, keep) ==
    IF rs = <<>> THEN <<>>
    ELSE IF (Head(rs).id = rowId) = keep
         THEN <<Head(rs)>> \o RowsWithId(Tail(rs), rowId, keep)
         ELSE RowsWithId(Tail(rs), rowId, keep)

\* allRowIds.every(id => selectedIds.includes(id))
EveryIdSelected(rs, selectedIds) == \A i \in 1..Len(rs) : SeqContains(selectedIds, rs[i].id)

\* selectRow with selectAll and indeterminate computed from the selection
\* as it was before the call
SelectRowUpdateStale(sel, rs, rowId, selected) ==
    LET selectedIds ==
            IF selected
            THEN IF sel.mode = "single" THEN <<rowId>>
                 ELSE IF ~SeqContains(sel.selectedIds, rowId)
                      THEN Append(sel.selectedIds, rowId)
                      ELSE sel.selectedIds
            ELSE DropId(sel.selectedIds, rowId)
        selectAll == Len(rs) > 0 /\ EveryIdSelected(rs, sel.selectedIds)
        indeterminate == Len(sel.selectedIds) > 0 /\ ~selectAll
    IN  [sel EXCEPT !.selectedIds = selectedIds,
                    !.selectAll = selectAll, !.indeterminate = indeterminate]

\* selectRow that adds to the selection in mode 'single' as it does in
\* mode 'multiple'
SelectRowUpdateAdds(sel, rs, rowId, selected) ==
    LET selectedIds ==
            IF selected
            THEN IF ~SeqContains(sel.selectedIds, rowId)
                 THEN Append(sel.selectedIds, rowId)
                 ELSE sel.selectedIds
            ELSE DropId(sel.selectedIds, rowId)
        selectedRows ==
            IF selected
            THEN IF ~SeqContains(sel.selectedIds, rowId)
                    /\ RowsWithId(rs, rowId, TRUE) # <<>>
                 THEN Append(sel.selectedRows, Head(RowsWithId(rs, rowId, TRUE)))
                 ELSE sel.selectedRows
            ELSE RowsWithId(sel.selectedRows, rowId, FALSE)
        selectAll == Len(rs) > 0 /\ EveryIdSelected(rs, selectedIds)
        indeterminate == Len(selectedIds) > 0 /\ ~selectAll
    IN  [sel EXCEPT !.selectedIds = selectedIds, !.selectedRows = selectedRows,
                    !.selectAll = selectAll, !.indeterminate = indeterminate]

\* the updater selectRow hands to _selection.update; rs is this.rows()
SelectRowUpdate(sel, rs, rowId, selected) ==
    LET selectedIds ==
            IF selected
            THEN IF sel.mode = "single" THEN <<rowId>>
                 ELSE IF ~SeqContains(sel.selectedIds, rowId)
                      THEN Append(sel.selectedIds, rowId)
                      ELSE sel.selectedIds
            ELSE DropId(sel.selectedIds, rowId)
        selectedRows ==
            IF selected
            THEN IF sel.mode = "single" THEN RowsWithId(rs, rowId, TRUE)
                 ELSE IF ~SeqContains(sel.selectedIds, rowId)
                         /\ RowsWithId(rs, rowId, TRUE) # <<>>
                      THEN Append(sel.selectedRows, Head(RowsWithId(rs, rowId, TRUE)))
                      ELSE sel.selectedRows
            ELSE RowsWithId(sel.selectedRows, rowId, FALSE)
        selectAll == Len(rs) > 0 /\ EveryIdSelected(rs, selectedIds)
        indeterminate == Len(selectedIds) > 0 /\ ~selectAll
    IN  [sel EXCEPT !.selectedIds = selectedIds, !.selectedRows = selectedRows,
                    !.selectAll = selectAll, !.indeterminate = indeterminate]

SelectRow(rowId, selected) ==
    /\ selection' = IF selection.mode = "none" THEN selection
                    ELSE SelectRowUpdate(selection, rows, rowId, selected)
    /\ fresh' = FALSE
    /\ selHist' = IF selection.mode = "none" \/ selHist = "other" THEN selHist ELSE "only"
    /\ UNCHANGED <<data, columns, options, sort, filters, pagination, lastSet, lastSort, outside>>

\* the updater selectAllRows hands to _selection.update; rs is this.rows()
SelectAllRowsUpdate(sel, rs, selected) ==
    IF selected
    THEN [sel EXCEPT !.selectedIds = [i \in 1..Len(rs) |-> rs[i].id],
                     !.selectedRows = rs,
                     !.selectAll = TRUE, !.indeterminate = FALSE]
    ELSE [sel EXCEPT !.selectedIds = <<>>, !.selectedRows = <<>>,
                     !.selectAll = FALSE, !.indeterminate = FALSE]

\* a variant without the test of the mode
SelectAllRowsAnyMode(selected) ==
    /\ selection' = SelectAllRowsUpdate(selection, rows, selected)
    /\ fresh' = FALSE
    /\ selHist' = IF selHist = "other" THEN selHist ELSE "only"
    /\ UNCHANGED <<data, columns, options, sort, filters, pagination, lastSet, lastSort, outside>>

SelectAllRows(selected) ==
    /\ selection' = IF selection.mode # "multiple" THEN selection
                    ELSE SelectAllRowsUpdate(selection, rows, selected)
    /\ fresh' = FALSE
    /\ selHist' = IF selection.mode # "multiple" \/ selHist = "other" THEN selHist ELSE "only"
    /\ UNCHANGED <<data, columns, options, sort, filters, pagination, lastSet, lastSort, outside>>

ToggleRowSelection(rowId) ==
    SelectRow(rowId, ~SeqContains(selection.selectedIds, rowId))

ClearSelection ==
    /\ selection' = [selection EXCEPT !.selectedIds = <<>>, !.selectedRows = <<>>,
                                      !.selectAll = FALSE, !.indeterminate = FALSE]
    /\ fresh' = FALSE
    /\ selHist' = "other"
    /\ UNCHANGED <<data, columns, options, sort, filters, pagination, lastSet, lastSort, outside>>

\* refresh(): _data.update(data => [...data]), a copy with the same records
Refresh ==
    /\ data' = [i \in 1..Len(data) |-> data[i]]
    /\ fresh' = FALSE
    /\ UNCHANGED <<columns, options, sort, filters, pagination, selection, lastSet, lastSort, selHist, outside>>

\* A read of state() (or of processedRows()): processedRows is evaluated
\* and updatePaginationTotals writes the totals of the filtered rows.
ReadState ==
    /\ pagination' = updatePaginationTotals(pagination, Len(filteredSorted))
    /\ fresh' = TRUE
    /\ UNCHANGED <<data, columns, options, sort, filters, selection, lastSet, lastSort, selHist, outside>>

(***************************************************************************)
(* exportState / importState.  A JSON text is modelled by what JSON.parse  *)
(* makes of it: kind "malformed" (JSON.parse throws), "null" (the value    *)
(* null), "other" (a number, a string, a boolean or an array) or "object"; *)
(* an object carries the parts among sort, filters, pagination and         *)
(* selection that it has with a truthy value.                              *)
(***************************************************************************)
StateParts == {"sort", "filters", "pagination", "selection"}

JsonText(kind, has, s, f, p, sel) ==
    [kind |-> kind, has |-> has, sort |-> s, filters |-> f,
     pagination |-> p, selection |-> sel]

\* JSON.stringify of a property value: NaN is written as null; a property
\* that is undefined is left out, and reads as undefined after the parse
JsonValue(v) == IF v.t = "nan" THEN Null ELSE v

\* JSON.stringify of an array element: NaN and undefined are written as null
JsonElement(v) == IF v.t \in {"nan", "undef"} THEN Null ELSE v

JsonRecord(rec) == [f \in DOMAIN rec |-> JsonValue(rec[f])]

JsonRow(row) == [row EXCEPT !.id = JsonValue(row.id), !.data = JsonRecord(row.data)]

JsonFilters(fs) == [i \in 1..Len(fs) |-> [fs[i] EXCEPT !.value = JsonValue(fs[i].value)]]

JsonSelection(sel) ==
    [sel EXCEPT !.selectedIds = [i \in 1..Len(sel.selectedIds) |->
                                    JsonElement(sel.selectedIds[i])],
                !.selectedRows = [i \in 1..Len(sel.selectedRows) |->
                                    JsonRow(sel.selectedRows[i])]]

\* exportState(): JSON.stringify({sort, filters, pagination, selection}) of
\* the signals as they are (processedRows is not evaluated)
exportState ==
    JsonText("object", StateParts, sort, JsonFilters(filters), pagination,
             JsonSelection(selection))

\* JSON.parse(stateJson) throws, or reading state.sort throws on null: the
\* catch block logs the error and nothing is set
ImportThrows(json) == json.kind \in {"malformed", "null"}

\* importState whose catch block empties the sort and filter lists
ImportPartResetOnError(json, part, current) ==
    IF ImportThrows(json)
    THEN IF part \in {"sort", "filters"} THEN <<>> ELSE current
    ELSE IF json.kind = "object" /\ part \in json.has THEN json[part] ELSE current

\* if (state.part) this._part.set(state.part)
ImportPart(json, part, current) ==
    IF ~ImportThrows(json) /\ json.kind = "object" /\ part \in json.has
    THEN json[part] ELSE current

\* importState(stateJson)
ImportState(json) ==
    /\ sort' = ImportPart(json, "sort", sort)
    /\ filters' = ImportPart(json, "filters", filters)
    /\ pagination' = ImportPart(json, "pagination", pagination)
    /\ selection' = ImportPart(json, "selection", selection)
    /\ fresh' = FALSE
    /\ selHist' = IF selection' = selection THEN selHist ELSE "other"
    /\ lastImport' = [kind |-> json.kind,
                      held |-> sort # <<>> /\ filters # <<>>
                                /\ selection.selectedIds # <<>>]
    /\ UNCHANGED <<adapter, data, columns, options, lastSet, lastSort, virt, lastCall,
                   smartvars, columnvars>>

(***************************************************************************)
(* Inputs of the calls.                                                    *)
(***************************************************************************)
GridOptions(enableSorting, enableFiltering, enablePagination, multiSort) ==
    [enableSorting |-> enableSorting, enableFiltering |-> enableFiltering,
     enablePagination |-> enablePagination, multiSort |-> multiSort]

\* the defaults of initialize, and each of them overridden in turn
DefaultOptions == GridOptions(TRUE, TRUE, TRUE, FALSE)
NoSortingOptions == GridOptions(FALSE, TRUE, TRUE, FALSE)
NoFilteringOptions == GridOptions(TRUE, FALSE, TRUE, FALSE)
NoPaginationOptions == GridOptions(TRUE, TRUE, FALSE, FALSE)
MultiSortOptions == GridOptions(TRUE, TRUE, TRUE, TRUE)

FilterArgs(columnId, value, operator) ==
    [columnId |-> columnId, value |-> value, operator |-> operator]

\* setFilter calls: two filters on age, one on name with the default
\* operator, one on the column with a filterFn, and the three empty values
FilterInputs ==
    { FilterArgs("age", Num(25), "greaterThan"),
      FilterArgs("age", Str(<<"3">>), "startsWith"),
      FilterArgs("name", Str(<<"A", "N">>), ""),
      FilterArgs("senior", Num(1), "custom"),
      FilterArgs("age", Str(<<>>), "contains"),
      FilterArgs("name", Null, ""),
      FilterArgs("senior", Undef, "equals") }

SortColumnIds == {"age", "id", "senior"}

RowIdInputs == {Num(1), Num(2), Num(7)}

(***************************************************************************)
(* Spec: filtering and pagination.                                         *)
(***************************************************************************)
Next ==
    \/ \E d \in DataPaged, cols \in ColumnSets,
          o \in {DefaultOptions, NoFilteringOptions, NoPaginationOptions},
          pageSize \in 0..MaxPageSize :
            Initialize(d, cols, o, pageSize, "") /\ UNCHANGED lastGrid
    \/ \E f \in FilterInputs : SetFilter(f.columnId, f.value, f.operator) /\ UNCHANGED lastGrid
    \/ \E c \in {"age", "name", "senior", ""} : ClearFilter(c) /\ UNCHANGED lastGrid
    \/ \E page \in 0..MaxPage : SetPage(page) /\ UNCHANGED lastGrid
    \/ \E size \in 1..MaxPageSize : SetPageSize(size) /\ UNCHANGED lastGrid
    \/ Refresh /\ UNCHANGED lastGrid
    \/ ReadState /\ UNCHANGED lastGrid

Spec == Init /\ [][Next]_vars

(***************************************************************************)
(* SpecSort: sorting and the processed order, with one filter and two      *)
(* page sizes (the default and MaxPageSize).                               *)
(***************************************************************************)
NextSort ==
    \/ \E d \in DataA \cup DataB, cols \in ColumnSets,
          o \in {DefaultOptions, MultiSortOptions}, pageSize \in {0, MaxPageSize} :
            Initialize(d, cols, o, pageSize, "") /\ UNCHANGED lastGrid
    \/ \E c \in SortColumnIds, dir \in {"", "asc", "desc"} :
            SortBy(c, dir) /\ UNCHANGED lastSort /\ UNCHANGED lastGrid
    \/ \E c \in SortColumnIds \cup {""} : ClearSort(c) /\ UNCHANGED lastSort /\ UNCHANGED lastGrid
    \/ SetFilter("age", Num(25), "greaterThan") /\ UNCHANGED lastGrid
    \/ ClearFilter("") /\ UNCHANGED lastGrid
    \/ ReadState /\ UNCHANGED lastGrid

SpecSort == Init /\ [][NextSort]_vars

(***************************************************************************)
(* SpecSortList: the sort list under sortBy and clearSort, with the last   *)
(* sortBy call recorded in lastSort.                                       *)
(***************************************************************************)
NoSortCall == [columnId |-> "", direction |-> "", before |-> "", enabled |-> FALSE]

NextSortList ==
    \/ \E o \in {DefaultOptions, NoSortingOptions, MultiSortOptions} :
            Initialize([i \in 1..3 |-> RecordA(i)], GridColumns, o, 0, "") /\ UNCHANGED lastGrid
    \/ \E c \in SortColumnIds, dir \in {"", "asc", "desc"} :
            /\ SortBy(c, dir)
            /\ lastSort' = [columnId |-> c, direction |-> dir,
                            before |-> getSortDirection(sort, c),
                            enabled |-> options.enableSorting] /\ UNCHANGED lastGrid
    \/ \E c \in SortColumnIds \cup {""} : ClearSort(c) /\ lastSort' = NoSortCall /\ UNCHANGED lastGrid
    \/ ReadState /\ UNCHANGED lastGrid

SpecSortList == Init /\ [][NextSortList]_vars

(***************************************************************************)
(* SpecSelect: selection.                                                  *)
(***************************************************************************)
NextSelect ==
    \/ \E d \in DataSelect, mode \in {"", "single", "multiple"} :
            Initialize(d, GridColumns, DefaultOptions, 0, mode) /\ UNCHANGED lastGrid
    \/ \E id \in RowIdInputs, selected \in BOOLEAN : SelectRow(id, selected) /\ UNCHANGED lastGrid
    \/ \E selected \in BOOLEAN : SelectAllRows(selected) /\ UNCHANGED lastGrid
    \/ \E id \in RowIdInputs : ToggleRowSelection(id) /\ UNCHANGED lastGrid
    \/ ClearSelection /\ UNCHANGED lastGrid
    \/ ReadState /\ UNCHANGED lastGrid

SpecSelect == Init /\ [][NextSelect]_vars

(***************************************************************************)
(* SpecGrid: selection together with filtering, sorting and paging, under  *)
(* every selection mode and with sorting and filtering disabled; the last  *)
(* setFilter, clearFilter, sortBy, selectRow or selectAllRows call is      *)
(* recorded in lastGrid when no other call came after it.                  *)
(***************************************************************************)
FilteredOut ==
    {id \in {selection.selectedIds[i] : i \in 1..Len(selection.selectedIds)} :
        \A i \in 1..Len(filteredSorted) : filteredSorted[i].id # id}

GridCall(op) == [op |-> op, mode |-> selection.mode,
                 sorting |-> options.enableSorting,
                 filtering |-> options.enableFiltering,
                 absent |-> FilteredOut]

\* sorting and filtering both disabled
NoSortFilterOptions == GridOptions(FALSE, FALSE, TRUE, FALSE)

NextGrid ==
    \/ \E o \in {DefaultOptions, NoSortFilterOptions},
          mode \in {"", "single", "multiple"} :
            /\ Initialize([i \in 1..3 |-> RecordA(i)], GridColumns, o, MaxPageSize, mode)
            /\ lastGrid' = NoGridCall
    \/ SetFilter("age", Num(25), "greaterThan") /\ lastGrid' = GridCall("setFilter")
    \/ ClearFilter("") /\ lastGrid' = GridCall("clearFilter")
    \/ SortBy("age", "desc") /\ UNCHANGED lastSort /\ lastGrid' = GridCall("sortBy")
    \/ ClearSort("") /\ UNCHANGED lastSort /\ lastGrid' = NoGridCall
    \/ SetPage(2) /\ lastGrid' = NoGridCall
    \/ SetPageSize(1) /\ lastGrid' = NoGridCall
    \/ Refresh /\ lastGrid' = NoGridCall
    \/ \E id \in {Num(1), Num(2)} :
            SelectRow(id, TRUE) /\ lastGrid' = GridCall("selectRow")
    \/ \E selected \in BOOLEAN :
            SelectAllRows(selected) /\ lastGrid' = GridCall("selectAllRows")
    \/ ReadState /\ lastGrid' = NoGridCall

SpecGrid == Init /\ [][NextGrid]_vars

(***************************************************************************)
(* SpecPersist: initialize, sorting, filtering and selection together      *)
(* with exportState / importState.                                         *)
(***************************************************************************)
InitialPagination == [currentPage |-> 1, pageSize |-> DefaultPageSize,
                      totalItems |-> 0, totalPages |-> 0]
InitialSelection == [mode |-> "none", selectedRows |-> <<>>, selectedIds |-> <<>>,
                     selectAll |-> FALSE, indeterminate |-> FALSE]

\* a JSON text that carries no state
JsonWithout(kind) == JsonText(kind, {}, <<>>, <<>>, InitialPagination, InitialSelection)

\* a snapshot saved in multi-sort mode with both rows selected in mode
\* 'single', as importState takes it with no validation
SavedSnapshot ==
    JsonText("object", StateParts,
             << [columnId |-> "age", direction |-> "asc"],
                [columnId |-> "id", direction |-> "desc"] >>,
             << FilterArgs("age", Num(25), "greaterThan") >>,
             [currentPage |-> 1, pageSize |-> MaxPageSize, totalItems |-> 1,
              totalPages |-> 1],
             [mode |-> "single", selectedRows |-> <<>>,
              selectedIds |-> <<Num(1), Num(2)>>,
              selectAll |-> TRUE, indeterminate |-> FALSE])

\* the texts handed to importState: unparseable, null, a number, {}, a
\* text with a sort list alone, and a whole snapshot
ImportInputs ==
    { JsonWithout("malformed"), JsonWithout("null"), JsonWithout("other"),
      JsonWithout("object"),
      [SavedSnapshot EXCEPT !.has = {"sort"}],
      SavedSnapshot }

\* the setFilter call of the persistence runs: a value JSON cannot write
\* (the snapshot above has a filter with one it can)
PersistFilterInputs == { FilterArgs("age", NaN, "equals") }

NextPersist ==
    \/ \E d \in {x \in DataA : Len(x) = MaxSelectRows},
          o \in {DefaultOptions, MultiSortOptions}, mode \in {"single", "multiple"} :
            Initialize(d, GridColumns, o, 0, mode) /\ UNCHANGED lastGrid
    \/ \E call \in {<<"age", "">>, <<"id", "desc">>} :
            SortBy(call[1], call[2]) /\ UNCHANGED lastSort /\ UNCHANGED lastGrid
    \/ ClearSort("") /\ UNCHANGED lastSort /\ UNCHANGED lastGrid
    \/ \E f \in PersistFilterInputs : SetFilter(f.columnId, f.value, f.operator) /\ UNCHANGED lastGrid
    \/ ClearFilter("") /\ UNCHANGED lastGrid
    \/ \E id \in {Num(1), Num(2)} : SelectRow(id, TRUE) /\ UNCHANGED lastGrid
    \/ SelectAllRows(TRUE) /\ UNCHANGED lastGrid
    \/ ClearSelection /\ UNCHANGED lastGrid
    \/ ReadState /\ UNCHANGED lastGrid
    \/ ImportState(exportState) /\ UNCHANGED lastGrid
    \/ \E json \in ImportInputs : ImportState(json) /\ UNCHANGED lastGrid

SpecPersist == Init /\ [][NextPersist]_vars

(***************************************************************************)
(* VirtualizationService.  v is the record of its signals; heights,        *)
(* counts and scroll positions are whole numbers, item heights are         *)
(* positive.                                                               *)
(***************************************************************************)
\* Math.ceil(containerHeight / itemHeight)
visibleItems(v) == CeilDiv(v.containerHeight, v.itemHeight)

\* Math.max(0, Math.floor(scrollTop / itemHeight) - overscan)
visibleStartIndex(v) == Max(0, (v.scrollTop \div v.itemHeight) - v.overscan)

\* the end index without the doubled overscan counted from the start
\* index: the last of visibleItems + 2 * overscan items
visibleEndIndexLastItem(v) ==
    Min(v.totalItems - 1, visibleStartIndex(v) + visibleItems(v) + (v.overscan * 2) - 1)

\* Math.min(totalItems - 1, visibleStartIndex + visibleItems + overscan * 2)
visibleEndIndex(v) ==
    Min(v.totalItems - 1, visibleStartIndex(v) + visibleItems(v) + (v.overscan * 2))

totalHeight(v) == v.totalItems * v.itemHeight

offsetY(v) == visibleStartIndex(v) * v.itemHeight

SetContainerHeight(height) ==
    /\ virt' = [virt EXCEPT !.containerHeight = height]
    /\ lastCall' = NoCall
    /\ UNCHANGED gridvars

SetItemHeight(height) ==
    /\ virt' = [virt EXCEPT !.itemHeight = height]
    /\ lastCall' = NoCall
    /\ UNCHANGED gridvars

SetOverscan(overscan) ==
    /\ virt' = [virt EXCEPT !.overscan = overscan]
    /\ lastCall' = NoCall
    /\ UNCHANGED gridvars

SetTotalItems(count) ==
    /\ virt' = [virt EXCEPT !.totalItems = count]
    /\ lastCall' = NoCall
    /\ UNCHANGED gridvars

HandleScroll(scrollTop) ==
    /\ virt' = [virt EXCEPT !.scrollTop = scrollTop]
    /\ lastCall' = NoCall
    /\ UNCHANGED gridvars

\* what scrollToItem(index) returns: index * itemHeight
ScrollPosition(v, index) == index * v.itemHeight

\* scrollToItem(index)
ScrollToItem(index) ==
    /\ virt' = [virt EXCEPT !.scrollTop = ScrollPosition(virt, index)]
    /\ lastCall' = [op |-> "scrollToItem", index |-> index,
                    result |-> Num(ScrollPosition(virt, index)),
                    within |-> index >= visibleStartIndex(virt)
                                /\ index <= visibleEndIndex(virt)]
    /\ UNCHANGED gridvars

\* a scroll that is made only for an index past the end of the range
NeedsScrollPastEnd(v, index) == index > visibleEndIndex(v)

\* index < currentStart || index > currentEnd
NeedsScroll(v, index) == index < visibleStartIndex(v) \/ index > visibleEndIndex(v)

\* scrollToItemIfNeeded(index): the result Null is the null it returns
ScrollToItemIfNeeded(index) ==
    /\ virt' = IF NeedsScroll(virt, index)
               THEN [virt EXCEPT !.scrollTop = ScrollPosition(virt, index)]
               ELSE virt
    /\ lastCall' = [op |-> "scrollToItemIfNeeded", index |-> index,
                    result |-> IF NeedsScroll(virt, index)
                               THEN Num(ScrollPosition(virt, index)) ELSE Null,
                    within |-> index >= visibleStartIndex(virt)
                                /\ index <= visibleEndIndex(virt)]
    /\ UNCHANGED gridvars

\* reset()
Reset ==
    /\ virt' = [virt EXCEPT !.scrollTop = 0, !.totalItems = 0]
    /\ lastCall' = NoCall
    /\ UNCHANGED gridvars

\* the inputs of the calls
ContainerHeights == {0, 100, DefaultContainerHeight}
ItemHeights == {30, DefaultItemHeight}
Overscans == {0, 1, DefaultOverscan}
ItemCounts == {0, 1, 10, 100}
ScrollTops == {0, 45, 400, 4000}

NextVirtual ==
    \/ \E height \in ContainerHeights : SetContainerHeight(height)
    \/ \E height \in ItemHeights : SetItemHeight(height)
    \/ \E overscan \in Overscans : SetOverscan(overscan)
    \/ \E count \in ItemCounts : SetTotalItems(count)
    \/ \E scrollTop \in ScrollTops : HandleScroll(scrollTop)
    \/ \E index \in 0..MaxIndex : ScrollToItem(index)
    \/ \E index \in 0..MaxIndex : ScrollToItemIfNeeded(index)
    \/ Reset

SpecVirtual == Init /\ [][NextVirtual]_vars

(***************************************************************************)
(* SmartFilteringService: evaluating advanced filters.                     *)
(* An AdvancedFilter has a columnId, an operator, a value, a second value  *)
(* (undefined when absent), caseSensitive and a condition: "and", "or" or  *)
(* "" when it has none.  A filter value may be an array.                   *)
(***************************************************************************)
AdvancedFilter(columnId, operator, value, value2, caseSensitive, condition) ==
    [columnId |-> columnId, operator |-> operator, value |-> value,
     value2 |-> value2, caseSensitive |-> caseSensitive, condition |-> condition]

Arr(items) == [t |-> "arr", n |-> 0, s |-> <<>>, items |-> items]

\* Array.isArray(v)
IsArray(v) == v.t = "arr"

\* Array.prototype.join(','): null and undefined items are empty
RECURSIVE Join(_)
Join(items) ==
    IF items = <<>> THEN <<>>
    ELSE LET first == IF IsNullish(Head(items)) THEN <<>> ELSE ToStr(Head(items))
         IN  IF Len(items) = 1 THEN first
             ELSE first \o <<",">> \o Join(Tail(items))

\* String(v) and Number(v) of a value that may be an array
StringOf(v) == IF IsArray(v) THEN Join(v.items) ELSE ToStr(v)
NumberOf(v) == IF IsArray(v) THEN ToNumber(Str(Join(v.items))) ELSE ToNumber(v)

\* row[fieldPath]
getFieldValue(row, fieldPath) == Field(row, fieldPath)

compareValues(value, filterValue, operator, caseSensitive) ==
    LET valueStr == StringOf(value)
        filterStr == StringOf(filterValue)
        compareValue == IF caseSensitive THEN valueStr ELSE ToLowerCase(valueStr)
        compareFilter == IF caseSensitive THEN filterStr ELSE ToLowerCase(filterStr)
    IN  CASE operator = "equals" -> compareValue = compareFilter
          [] operator = "contains" -> Includes(compareValue, compareFilter)
          [] operator = "startsWith" -> StartsWith(compareValue, compareFilter)
          [] operator = "endsWith" -> EndsWith(compareValue, compareFilter)
          [] OTHER -> FALSE

compareNumeric(value, filterValue, operator) ==
    LET numValue == NumberOf(value)
        numFilter == NumberOf(filterValue)
    IN  IF numValue.t = "nan" \/ numFilter.t = "nan" THEN FALSE
        ELSE CASE operator = ">" -> numValue.n > numFilter.n
               [] operator = "<" -> numValue.n < numFilter.n
               [] operator = ">=" -> numValue.n >= numFilter.n
               [] operator = "<=" -> numValue.n <= numFilter.n
               [] OTHER -> FALSE

\* new RegExp(filterValue, flags) for the patterns of the model: an
\* undefined pattern is the empty pattern, "(" does not compile (the
\* constructor throws), every other character stands for itself
RegexSource(filterValue) == IF filterValue.t = "undef" THEN <<>> ELSE StringOf(filterValue)
RegexThrows(source) == \E i \in 1..Len(source) : source[i] = "("

\* regex.test(text) of a pattern of literal characters, flags 'g' or 'gi'
RegexTest(source, caseSensitive, text) ==
    IF caseSensitive THEN Includes(text, source)
    ELSE Includes(ToLowerCase(text), ToLowerCase(source))

\* a variant that short-circuits on undefined only (value === undefined)
NullShortCircuitStrict(value, operator) ==
    value.t = "undef" /\ operator # "isEmpty" /\ operator # "isNotEmpty"

\* value == null && operator !== 'isEmpty' && operator !== 'isNotEmpty'
NullShortCircuit(value, operator) ==
    IsNullish(value) /\ operator # "isEmpty" /\ operator # "isNotEmpty"

evaluateFilter(row, filter) ==
    LET value == getFieldValue(row, filter.columnId)
        filterValue == filter.value
        filterValue2 == filter.value2
    IN  IF NullShortCircuit(value, filter.operator)
        THEN FALSE
        ELSE CASE filter.operator \in {"equals", "contains", "startsWith", "endsWith"} ->
                    compareValues(value, filterValue, filter.operator, filter.caseSensitive)
               [] filter.operator = "greaterThan" -> compareNumeric(value, filterValue, ">")
               [] filter.operator = "lessThan" -> compareNumeric(value, filterValue, "<")
               [] filter.operator = "between" ->
                    /\ compareNumeric(value, filterValue, ">=")
                    /\ compareNumeric(value, filterValue2, "<=")
               [] filter.operator = "in" ->
                    /\ IsArray(filterValue)
                    /\ \E i \in 1..Len(filterValue.items) :
                          compareValues(value, filterValue.items[i], "equals", filter.caseSensitive)
               [] filter.operator = "notIn" ->
                    \/ ~IsArray(filterValue)
                    \/ ~\E i \in 1..Len(filterValue.items) :
                          compareValues(value, filterValue.items[i], "equals", filter.caseSensitive)
               [] filter.operator = "isEmpty" ->
                    \/ IsNullish(value)
                    \/ value = Str(<<>>)
                    \/ (IsArray(value) /\ Len(value.items) = 0)
               [] filter.operator = "isNotEmpty" ->
                    /\ ~IsNullish(value)
                    /\ value # Str(<<>>)
                    /\ (~IsArray(value) \/ Len(value.items) > 0)
               [] filter.operator = "regex" ->
                    IF RegexThrows(RegexSource(filterValue)) THEN FALSE
                    ELSE RegexTest(RegexSource(filterValue), filter.caseSensitive,
                                   StringOf(value))
               [] OTHER -> TRUE

\* a variant that treats an OR filter like an AND filter
evaluateAdvancedFiltersEvery(row, fs) ==
    \A i \in 1..Len(fs) : evaluateFilter(row, fs[i])

evaluateAdvancedFilters(row, fs) ==
    IF Len(fs) = 0 THEN TRUE
    ELSE LET IsAnd(f) == f.condition = "" \/ f.condition = "and"
             IsOr(f) == f.condition = "or"
             andFilters == SelectSeq(fs, IsAnd)
             orFilters == SelectSeq(fs, IsOr)
             passesAndFilters == \A i \in 1..Len(andFilters) : evaluateFilter(row, andFilters[i])
             passesOrFilters == \/ Len(orFilters) = 0
                                \/ \E i \in 1..Len(orFilters) : evaluateFilter(row, orFilters[i])
         IN  passesAndFilters /\ passesOrFilters

\* columns is the list of column ids handed to applyFilters
evaluateGlobalSearch(row, searchTerm, cols, searchableColumns) ==
    LET Searchable(c) == \E i \in 1..Len(searchableColumns) : searchableColumns[i] = c
        searchColumns == IF Len(searchableColumns) > 0 THEN SelectSeq(cols, Searchable)
                         ELSE cols
        searchLower == ToLowerCase(searchTerm)
    IN  \E i \in 1..Len(searchColumns) :
            LET value == getFieldValue(row, searchColumns[i])
            IN  /\ ~IsNullish(value)
                /\ Includes(ToLowerCase(StringOf(value)), searchLower)

\* SmartFilteringService.applyFilters(data, columns)
smartApplyFilters(sm, d, cols) ==
    IF Len(sm.advancedFilters) = 0 /\ sm.globalSearch = <<>> THEN d
    ELSE LET Passes(row) ==
                /\ evaluateAdvancedFilters(row, sm.advancedFilters)
                /\ \/ sm.globalSearch = <<>>
                   \/ evaluateGlobalSearch(row, sm.globalSearch, cols, sm.searchableColumns)
         IN  SelectSeq(d, Passes)

(***************************************************************************)
(* SmartFilteringService: the filter list.                                 *)
(***************************************************************************)
MaxFilters == 2

\* filters.findIndex(f => f.columnId === columnId && f.operator === operator),
\* 0 when there is none
FindFilter(fs, columnId, operator) ==
    IF \E i \in 1..Len(fs) : fs[i].columnId = columnId /\ fs[i].operator = operator
    THEN CHOOSE i \in 1..Len(fs) :
            /\ fs[i].columnId = columnId /\ fs[i].operator = operator
            /\ \A j \in 1..(i - 1) : ~(fs[j].columnId = columnId /\ fs[j].operator = operator)
    ELSE 0

\* { ...f, ...updates }
Spread(f, updates) == [k \in DOMAIN f |-> IF k \in DOMAIN updates THEN updates[k] ELSE f[k]]

\* _globalSearchSubject.next(value): the subject holds the value and every
\* debounced subscription restarts its timer with it
SubjectNext(sm, value) ==
    [sm EXCEPT !.subject = value,
               !.subscriptions = [i \in 1..Len(sm.subscriptions) |->
                    [sm.subscriptions[i] EXCEPT !.pending = TRUE, !.value = value]]]

AddFilterUpdate(fs, filter) ==
    LET existingIndex == FindFilter(fs, filter.columnId, filter.operator)
    IN  IF existingIndex > 0 THEN [fs EXCEPT ![existingIndex] = filter]
        ELSE Append(fs, filter)

AddFilter(filter) ==
    /\ \/ FindFilter(smart.advancedFilters, filter.columnId, filter.operator) > 0
       \/ Len(smart.advancedFilters) < MaxFilters
    /\ smart' = [smart EXCEPT !.advancedFilters = AddFilterUpdate(@, filter)]
    /\ lastSmart' = NoSmartCall
    /\ UNCHANGED <<saved, notsmart>>

\* operator is "" when the call leaves it out
RemoveFilter(columnId, operator) ==
    /\ LET Matches(f) == f.columnId = columnId /\ (operator = "" \/ f.operator = operator)
           Stays(f) == ~Matches(f)
       IN  smart' = [smart EXCEPT !.advancedFilters = SelectSeq(@, Stays)]
    /\ lastSmart' = NoSmartCall
    /\ UNCHANGED <<saved, notsmart>>

UpdateFilterUpdate(fs, columnId, operator, updates) ==
    [i \in 1..Len(fs) |->
        IF fs[i].columnId = columnId /\ fs[i].operator = operator
        THEN Spread(fs[i], updates)
        ELSE fs[i]]

UpdateFilter(columnId, operator, updates) ==
    /\ smart' = [smart EXCEPT !.advancedFilters =
                    UpdateFilterUpdate(@, columnId, operator, updates)]
    /\ lastSmart' = NoSmartCall
    /\ UNCHANGED <<saved, notsmart>>

ClearAllFilters ==
    /\ smart' = SubjectNext([smart EXCEPT !.advancedFilters = <<>>,
                                          !.globalSearch = <<>>], <<>>)
    /\ lastSmart' = NoSmartCall
    /\ UNCHANGED <<saved, notsmart>>

ClearColumnFilters(columnId) ==
    /\ LET Remains(f) == f.columnId # columnId
       IN  smart' = [smart EXCEPT !.advancedFilters = SelectSeq(@, Remains)]
    /\ lastSmart' = NoSmartCall
    /\ UNCHANGED <<saved, notsmart>>

\* applyFilters(data, columns) returns the rows that pass; lastSmart keeps
\* what it was given and what it returned
ApplyFilters(d, cols) ==
    /\ lastSmart' = [op |-> "applyFilters", data |-> d,
                     result |-> smartApplyFilters(smart, d, cols)]
    /\ UNCHANGED <<smart, saved, notsmart>>

\* the filters handed to addFilter: every operator, on age (null in one
\* row), name (null in another) and uuid (a field some rows do not have)
SmartFilterInputs ==
    { AdvancedFilter("age", "equals", Num(25), Undef, FALSE, ""),
      AdvancedFilter("name", "equals", Str(<<"a", "n", "n">>), Undef, FALSE, "or"),
      AdvancedFilter("name", "contains", Str(<<"n">>), Undef, TRUE, "and"),
      AdvancedFilter("name", "startsWith", Str(<<"A">>), Undef, TRUE, "or"),
      AdvancedFilter("name", "endsWith", Str(<<"B">>), Undef, FALSE, ""),
      AdvancedFilter("age", "greaterThan", Num(25), Undef, FALSE, "or"),
      AdvancedFilter("age", "lessThan", Str(<<"3", "0">>), Undef, FALSE, "and"),
      AdvancedFilter("age", "between", Num(0), Num(30), FALSE, ""),
      AdvancedFilter("age", "in", Arr(<<Num(25), Num(40)>>), Undef, FALSE, "or"),
      AdvancedFilter("age", "notIn", Arr(<<Num(25)>>), Undef, FALSE, ""),
      AdvancedFilter("uuid", "notIn", Num(9), Undef, FALSE, "or"),
      AdvancedFilter("name", "isEmpty", Undef, Undef, FALSE, ""),
      AdvancedFilter("uuid", "isEmpty", Undef, Undef, FALSE, "or"),
      AdvancedFilter("name", "isNotEmpty", Undef, Undef, FALSE, "or"),
      AdvancedFilter("name", "regex", Undef, Undef, FALSE, ""),
      AdvancedFilter("name", "regex", Str(<<"(">>), Undef, FALSE, "or"),
      AdvancedFilter("age", "custom", Num(1), Undef, FALSE, "and") }

\* the updates handed to updateFilter("age", "equals", updates)
SmartUpdateInputs ==
    { [value |-> Num(30)], [condition |-> "or"], [operator |-> "in"] }

\* the data handed to applyFilters, with the columns age and name
SmartData == { RecordsB, [i \in 1..3 |-> RecordA(i)] }
SmartColumns == <<"age", "name">>

NextSmartFilter ==
    \/ \E filter \in SmartFilterInputs : AddFilter(filter)
    \/ \E columnId \in {"age", "name"}, operator \in {"", "equals"} :
          RemoveFilter(columnId, operator)
    \/ \E updates \in SmartUpdateInputs : UpdateFilter("age", "equals", updates)
    \/ ClearAllFilters
    \/ \E columnId \in {"age", "uuid"} : ClearColumnFilters(columnId)
    \/ \E d \in SmartData : ApplyFilters(d, SmartColumns)

SpecSmartFilter == Init /\ [][NextSmartFilter]_vars

(***************************************************************************)
(* SmartFilteringService: global search and presets.  Search terms are     *)
(* sequences of characters.  Preset ids come from generateId (time and a   *)
(* random number); the model hands out 1, 2, ...                           *)
(***************************************************************************)
MaxSubscriptions == 1
MaxPresets == 2

\* config.minLength || 1
MinLength(sm) == IF sm.minLength = 0 THEN 1 ELSE sm.minLength

\* initialize(config?): merges the config and subscribes to globalSearch$;
\* the BehaviorSubject hands its current value to the new subscription,
\* which starts its debounce timer
SmartInitialize(config) ==
    /\ Len(smart.subscriptions) < MaxSubscriptions
    /\ smart' = [Spread(smart, config) EXCEPT !.subscriptions =
                    Append(@, Pipeline(TRUE, smart.subject, FALSE, <<>>))]
    /\ lastSmart' = NoSmartCall
    /\ UNCHANGED <<saved, notsmart>>

UpdateGlobalSearchConfig(config) ==
    /\ smart' = Spread(smart, config)
    /\ lastSmart' = NoSmartCall
    /\ UNCHANGED <<saved, notsmart>>

SetGlobalSearch(searchTerm) ==
    /\ smart' = IF Len(searchTerm) >= MinLength(smart) \/ Len(searchTerm) = 0
                THEN SubjectNext(smart, searchTerm)
                ELSE smart
    /\ lastSmart' = [op |-> "setGlobalSearch", term |-> searchTerm]
    /\ UNCHANGED <<saved, notsmart>>

ClearGlobalSearch ==
    /\ smart' = SubjectNext([smart EXCEPT !.globalSearch = <<>>], <<>>)
    /\ lastSmart' = NoSmartCall
    /\ UNCHANGED <<saved, notsmart>>

\* the debounce timer of subscription i runs out: distinctUntilChanged
\* drops a value equal to the last one it let through, otherwise the
\* subscriber of initialize sets the effective search term
DebounceFire(i) ==
    /\ i \in 1..Len(smart.subscriptions)
    /\ smart.subscriptions[i].pending
    /\ LET sub == smart.subscriptions[i]
           passes == ~sub.emitted \/ sub.last # sub.value
       IN  smart' = [smart EXCEPT
                        !.subscriptions[i] =
                            Pipeline(FALSE, <<>>, TRUE,
                                     IF passes THEN sub.value ELSE sub.last),
                        !.globalSearch = IF passes THEN sub.value ELSE @]
    /\ lastSmart' = NoSmartCall
    /\ UNCHANGED <<saved, notsmart>>

\* presets.find(p => p.id === presetId): its index, 0 when there is none
FindPreset(presets, presetId) ==
    IF \E i \in 1..Len(presets) : presets[i].id = presetId
    THEN CHOOSE i \in 1..Len(presets) :
            /\ presets[i].id = presetId
            /\ \A j \in 1..(i - 1) : presets[j].id # presetId
    ELSE 0

\* isDefault is FALSE for a preset that has no isDefault
SaveFilterPreset(name) ==
    /\ smart.nextId <= MaxPresets
    /\ smart' = [smart EXCEPT
                    !.filterPresets = Append(@, [id |-> smart.nextId, name |-> name,
                                                 filters |-> smart.advancedFilters,
                                                 global |-> smart.globalSearch,
                                                 isDefault |-> FALSE]),
                    !.nextId = @ + 1]
    /\ saved' = Append(saved, [filters |-> smart.advancedFilters,
                               global |-> smart.globalSearch])
    /\ lastSmart' = NoSmartCall
    /\ UNCHANGED notsmart

\* a variant that leaves the effective term to the debounced subscription
LoadFilterPresetUpdateDebounced(sm, preset) ==
    SubjectNext([sm EXCEPT !.advancedFilters = preset.filters], preset.global)

LoadFilterPresetUpdate(sm, preset) ==
    SubjectNext([sm EXCEPT !.advancedFilters = preset.filters,
                           !.globalSearch = preset.global], preset.global)

\* lastSmart keeps whether a preset was found and whether the filters or
\* the effective term it found differed from the preset's
LoadFilterPreset(presetId) ==
    LET index == FindPreset(smart.filterPresets, presetId)
    IN  /\ smart' = IF index = 0 THEN smart
                    ELSE LoadFilterPresetUpdate(smart, smart.filterPresets[index])
        /\ lastSmart' = [op |-> "loadFilterPreset", id |-> presetId, found |-> index > 0,
                         differed |-> /\ index > 0
                                      /\ smart.advancedFilters # smart.filterPresets[index].filters
                                      /\ smart.globalSearch # smart.filterPresets[index].global]
        /\ UNCHANGED <<saved, notsmart>>

DeleteFilterPreset(presetId) ==
    /\ LET Stays(p) == p.id # presetId
       IN  smart' = [smart EXCEPT !.filterPresets = SelectSeq(@, Stays)]
    /\ lastSmart' = NoSmartCall
    /\ UNCHANGED <<saved, notsmart>>

UpdateFilterPreset(presetId, updates) ==
    /\ LET presets == smart.filterPresets
       IN  smart' = [smart EXCEPT !.filterPresets =
                        [i \in 1..Len(presets) |->
                            IF presets[i].id = presetId THEN Spread(presets[i], updates)
                            ELSE presets[i]]]
    /\ lastSmart' = NoSmartCall
    /\ UNCHANGED <<saved, notsmart>>

SetDefaultPreset(presetId) ==
    /\ LET presets == smart.filterPresets
       IN  smart' = [smart EXCEPT !.filterPresets =
                        [i \in 1..Len(presets) |->
                            [presets[i] EXCEPT !.isDefault = (presets[i].id = presetId)]]]
    /\ lastSmart' = NoSmartCall
    /\ UNCHANGED <<saved, notsmart>>

\* the inputs of the calls: a call without config, and configs that set
\* minLength; the search terms '', 'a' and 'an'
SmartConfigs == { [k \in {} |-> 0], [minLength |-> 2], [minLength |-> 0] }
SearchTerms == { <<>>, <<"a">>, <<"a", "n">> }
PresetFilterInputs ==
    { AdvancedFilter("age", "equals", Num(25), Undef, FALSE, ""),
      AdvancedFilter("name", "contains", Str(<<"n">>), Undef, TRUE, "or") }
PresetUpdates == { [isDefault |-> TRUE], [name |-> "weekly"] }

NextSmartSearch ==
    \/ \E config \in SmartConfigs : SmartInitialize(config)
    \/ \E config \in SmartConfigs : UpdateGlobalSearchConfig(config)
    \/ \E searchTerm \in SearchTerms : SetGlobalSearch(searchTerm)
    \/ ClearGlobalSearch
    \/ \E i \in 1..MaxSubscriptions : DebounceFire(i)
    \/ ClearAllFilters

SpecSmartSearch == Init /\ [][NextSmartSearch]_vars

\* presets saved, flagged, renamed and deleted
NextSmartPreset ==
    \/ \E filter \in PresetFilterInputs : AddFilter(filter)
    \/ SaveFilterPreset("daily")
    \/ \E presetId \in 1..MaxPresets : DeleteFilterPreset(presetId)
    \/ \E presetId \in 1..MaxPresets, updates \in PresetUpdates :
          UpdateFilterPreset(presetId, updates)
    \/ \E presetId \in 1..MaxPresets : SetDefaultPreset(presetId)

SpecSmartPreset == Init /\ [][NextSmartPreset]_vars

\* presets saved and loaded while the filters and the search term change
NextSmartSnapshot ==
    \/ SmartInitialize([k \in {} |-> 0])
    \/ SetGlobalSearch(<<"a", "n">>)
    \/ ClearGlobalSearch
    \/ \E i \in 1..MaxSubscriptions : DebounceFire(i)
    \/ AddFilter(AdvancedFilter("age", "equals", Num(25), Undef, FALSE, ""))
    \/ UpdateFilter("age", "equals", [value |-> Num(30)])
    \/ RemoveFilter("age", "")
    \/ SaveFilterPreset("daily")
    \/ \E presetId \in 1..(MaxPresets + 1) : LoadFilterPreset(presetId)

SpecSmartSnapshot == Init /\ [][NextSmartSnapshot]_vars

(***************************************************************************)
(* ColumnManagementService.  A column is its id and its width (0 when it   *)
(* has none); a group is its id and the ids of its children.  Indexes in   *)
(* reorder events count from 0, as in the code.                            *)
(***************************************************************************)
DynamicColumn(id, width) == [id |-> id, width |-> width]
ColumnGroup(id, children) == [id |-> id, children |-> children]

\* Array.prototype.includes
IncludesId(seq, id) == \E i \in 1..Len(seq) : seq[i] = id

\* Array.prototype.indexOf: the first index, counted from 0, or -1
IndexOfId(seq, id) ==
    IF IncludesId(seq, id)
    THEN (CHOOSE i \in 1..Len(seq) : seq[i] = id /\ \A j \in 1..(i - 1) : seq[j] # id) - 1
    ELSE -1

\* seq.filter(x => x !== id)
WithoutId(seq, id) == LET Other(x) == x # id IN SelectSeq(seq, Other)

\* { ...widths, [columnId]: width } and delete widths[columnId]
SetWidth(widths, columnId, width) ==
    [id \in DOMAIN widths \cup {columnId} |-> IF id = columnId THEN width ELSE widths[id]]
DeleteWidth(widths, columnId) == [id \in DOMAIN widths \ {columnId} |-> widths[id]]

RECURSIVE DefaultWidths(_)
DefaultWidths(cols) ==
    IF cols = <<>> THEN NoWidths
    ELSE LET widths == DefaultWidths(SubSeq(cols, 1, Len(cols) - 1))
             col == cols[Len(cols)]
         IN  IF col.width # 0 THEN SetWidth(widths, col.id, col.width) ELSE widths

\* groups is <<>> when initialize is called without groups
ColumnInitialize(cols, groups) ==
    /\ colman' = [colman EXCEPT
                    !.columns = cols,
                    !.columnOrder = [i \in 1..Len(cols) |-> cols[i].id],
                    !.columnGroups = IF groups # <<>> THEN groups ELSE @,
                    !.columnWidths = DefaultWidths(cols)]
    /\ lastColumn' = NoColumnCall
    /\ UNCHANGED notcolumn

removeColumnWidth(cm, columnId) ==
    [cm EXCEPT !.columnWidths = DeleteWidth(@, columnId)]

unlockColumn(cm, columnId) ==
    [cm EXCEPT !.lockedColumns = [left |-> WithoutId(@.left, columnId),
                                  right |-> WithoutId(@.right, columnId)]]

showColumn(cm, columnId) ==
    [cm EXCEPT !.hiddenColumns = WithoutId(@, columnId)]

hideColumn(cm, columnId) ==
    IF ~IncludesId(cm.hiddenColumns, columnId)
    THEN [cm EXCEPT !.hiddenColumns = Append(@, columnId)]
    ELSE cm

\* a variant that leaves the other side alone
lockColumnKeepOther(cm, columnId, position) ==
    IF position = "left"
    THEN [cm EXCEPT !.lockedColumns.left = Append(WithoutId(@, columnId), columnId)]
    ELSE [cm EXCEPT !.lockedColumns.right = Append(WithoutId(@, columnId), columnId)]

lockColumn(cm, columnId, position) ==
    LET left == WithoutId(cm.lockedColumns.left, columnId)
        right == WithoutId(cm.lockedColumns.right, columnId)
    IN  [cm EXCEPT !.lockedColumns =
            IF position = "left"
            THEN [left |-> Append(left, columnId), right |-> right]
            ELSE [left |-> left, right |-> Append(right, columnId)]]

RemoveColumn(columnId) ==
    /\ LET NotIt(col) == col.id # columnId
           removed == [colman EXCEPT !.columns = SelectSeq(@, NotIt),
                                     !.columnOrder = WithoutId(@, columnId)]
       IN  colman' = showColumn(unlockColumn(removeColumnWidth(removed, columnId),
                                             columnId), columnId)
    /\ lastColumn' = [op |-> "removeColumn", columnId |-> columnId]
    /\ UNCHANGED notcolumn

UpdateColumnWidth(columnId, width) ==
    /\ colman' = [colman EXCEPT !.columnWidths = SetWidth(@, columnId, width)]
    /\ lastColumn' = NoColumnCall
    /\ UNCHANGED notcolumn

HideColumn(columnId) ==
    /\ colman' = hideColumn(colman, columnId)
    /\ lastColumn' = NoColumnCall
    /\ UNCHANGED notcolumn

ShowColumn(columnId) ==
    /\ colman' = showColumn(colman, columnId)
    /\ lastColumn' = NoColumnCall
    /\ UNCHANGED notcolumn

\* isColumnLocked(columnId): "left", "right" or "" (false)
isColumnLocked(cm, columnId) ==
    IF IncludesId(cm.lockedColumns.left, columnId) THEN "left"
    ELSE IF IncludesId(cm.lockedColumns.right, columnId) THEN "right"
    ELSE ""

\* lastColumn keeps where the column was locked before the call
LockColumn(columnId, position) ==
    /\ colman' = lockColumn(colman, columnId, position)
    /\ lastColumn' = [op |-> "lockColumn", columnId |-> columnId, position |-> position,
                      was |-> isColumnLocked(colman, columnId)]
    /\ UNCHANGED notcolumn

UnlockColumn(columnId) ==
    /\ colman' = unlockColumn(colman, columnId)
    /\ lastColumn' = NoColumnCall
    /\ UNCHANGED notcolumn

\* the order list reorderColumns sets
FinalOrder(cm, newOrder) ==
    LET existingIds == [i \in 1..Len(cm.columns) |-> cm.columns[i].id]
        Exists(id) == IncludesId(existingIds, id)
        validOrder == SelectSeq(newOrder, Exists)
        Missing(id) == ~IncludesId(validOrder, id)
        missingIds == SelectSeq(existingIds, Missing)
    IN  validOrder \o missingIds

\* the events reorderColumns emits: oldOrder is read from _columnOrder
\* after the new order has been set
RECURSIVE ReorderEvents(_, _, _)
ReorderEvents(oldOrder, newOrder, n) ==
    IF n = 0 THEN <<>>
    ELSE LET columnId == newOrder[n]
             newIndex == n - 1
             oldIndex == IndexOfId(oldOrder, columnId)
         IN  ReorderEvents(oldOrder, newOrder, n - 1)
             \o (IF oldIndex # newIndex
                 THEN <<[columnId |-> columnId, newIndex |-> newIndex, oldIndex |-> oldIndex]>>
                 ELSE <<>>)

ReorderColumns(newOrder) ==
    /\ colman' = [colman EXCEPT !.columnOrder = FinalOrder(colman, newOrder)]
    /\ lastColumn' = [op |-> "reorderColumns", newOrder |-> newOrder,
                      before |-> colman.columnOrder,
                      events |-> ReorderEvents(FinalOrder(colman, newOrder), newOrder,
                                               Len(newOrder))]
    /\ UNCHANGED notcolumn

\* order.splice(oldIndex, 1); order.splice(newIndex, 0, columnId)
MoveColumn(columnId, newIndex) ==
    /\ LET oldIndex == IndexOfId(colman.columnOrder, columnId)
           without == SubSeq(colman.columnOrder, 1, oldIndex)
                      \o SubSeq(colman.columnOrder, oldIndex + 2, Len(colman.columnOrder))
           at == Min(newIndex, Len(without))
       IN  /\ colman' = IF oldIndex = -1 \/ oldIndex = newIndex THEN colman
                        ELSE [colman EXCEPT !.columnOrder =
                                 SubSeq(without, 1, at) \o <<columnId>>
                                 \o SubSeq(without, at + 1, Len(without))]
           /\ lastColumn' = [op |-> "moveColumn", columnId |-> columnId,
                             newIndex |-> newIndex, before |-> colman.columnOrder,
                             events |-> IF oldIndex = -1 \/ oldIndex = newIndex THEN <<>>
                                        ELSE <<[columnId |-> columnId, newIndex |-> newIndex,
                                                oldIndex |-> oldIndex]>>]
    /\ UNCHANGED notcolumn

\* the column list addColumn may grow to
MaxColumns == 3

\* columns.splice(position, 0, column) and order.splice(position, 0,
\* column.id), or push when position is undefined (-1 here) or out of range;
\* a column with a width gets it in columnWidths
AddColumn(column, position) ==
    /\ Len(colman.columns) < MaxColumns
    /\ LET valid == position >= 0 /\ position <= Len(colman.columns)
           at == Min(position, Len(colman.columnOrder))
           added == [colman EXCEPT
                       !.columns = IF valid
                                   THEN SubSeq(@, 1, position) \o <<column>>
                                        \o SubSeq(@, position + 1, Len(@))
                                   ELSE Append(@, column),
                       !.columnOrder = IF valid
                                       THEN SubSeq(@, 1, at) \o <<column.id>>
                                            \o SubSeq(@, at + 1, Len(@))
                                       ELSE Append(@, column.id)]
       IN  colman' = IF column.width # 0
                     THEN [added EXCEPT !.columnWidths = SetWidth(@, column.id, column.width)]
                     ELSE added
    /\ lastColumn' = NoColumnCall
    /\ UNCHANGED notcolumn

\* the per-column hidden flag; a column made without it has none
HiddenColumn(id, width) == [id |-> id, width |-> width, hidden |-> TRUE]
IsFlaggedHidden(col) == "hidden" \in DOMAIN col /\ col.hidden

\* columns.find(col => col.id === id): <<col>>, or <<>> for undefined
FindColumnById(cols, id) ==
    LET IsIt(col) == col.id = id
        found == SelectSeq(cols, IsIt)
    IN  IF found = <<>> THEN <<>> ELSE <<found[1]>>

RECURSIVE MapFind(_, _)
MapFind(order, cols) ==
    IF order = <<>> THEN <<>>
    ELSE FindColumnById(cols, Head(order)) \o MapFind(Tail(order), cols)

\* the columns in order-list sequence, then the columns not in the order list
orderedColumns(cm) ==
    IF Len(cm.columnOrder) = 0 THEN cm.columns
    ELSE LET NotOrdered(col) == ~IncludesId(cm.columnOrder, col.id)
         IN  MapFind(cm.columnOrder, cm.columns) \o SelectSeq(cm.columns, NotOrdered)

visibleColumns(cm) ==
    LET Shown(col) == ~IncludesId(cm.hiddenColumns, col.id) /\ ~IsFlaggedHidden(col)
    IN  SelectSeq(orderedColumns(cm), Shown)

lockedLeftColumns(cm) ==
    LET Locked(col) == IncludesId(cm.lockedColumns.left, col.id)
    IN  SelectSeq(visibleColumns(cm), Locked)

lockedRightColumns(cm) ==
    LET Locked(col) == IncludesId(cm.lockedColumns.right, col.id)
    IN  SelectSeq(visibleColumns(cm), Locked)

\* a variant that looks at the left lock list only
centerColumnsLeftOnly(cm) ==
    LET Free(col) == ~IncludesId(cm.lockedColumns.left, col.id)
    IN  SelectSeq(visibleColumns(cm), Free)

centerColumns(cm) ==
    LET Free(col) == /\ ~IncludesId(cm.lockedColumns.left, col.id)
                     /\ ~IncludesId(cm.lockedColumns.right, col.id)
    IN  SelectSeq(visibleColumns(cm), Free)

\* groups.flatMap(g => g.children)
RECURSIVE FlatChildren(_)
FlatChildren(groups) ==
    IF groups = <<>> THEN <<>> ELSE Head(groups).children \o FlatChildren(Tail(groups))

\* one bucket {group, columns} for each group with a visible child
RECURSIVE GroupBuckets(_, _)
GroupBuckets(groups, cols) ==
    IF groups = <<>> THEN <<>>
    ELSE LET group == Head(groups)
             InGroup(col) == IncludesId(group.children, col.id)
             groupColumns == SelectSeq(cols, InGroup)
         IN  (IF Len(groupColumns) > 0
              THEN <<[group |-> group.id, columns |-> groupColumns]>>
              ELSE <<>>) \o GroupBuckets(Tail(groups), cols)

\* the group buckets, then the bucket of the ungrouped columns (group "")
getGroupedColumns(cm) ==
    LET cols == visibleColumns(cm)
        groupedColumnIds == FlatChildren(cm.columnGroups)
        Ungrouped(col) == ~IncludesId(groupedColumnIds, col.id)
        ungroupedColumns == SelectSeq(cols, Ungrouped)
    IN  GroupBuckets(cm.columnGroups, cols)
        \o (IF Len(ungroupedColumns) > 0
            THEN <<[group |-> "", columns |-> ungroupedColumns]>>
            ELSE <<>>)

MaxNewOrder == 3

\* the inputs of the calls: three columns, two of them with a width, and a
\* group of two of them; "x" is the id of no column
ColumnIds == {"a", "b", "c"}
ColumnInputs == << DynamicColumn("a", 100), DynamicColumn("b", 0), DynamicColumn("c", 120) >>
GroupInputs == << ColumnGroup("g", <<"a", "b">>) >>
NewOrders == UNION {[1..n -> ColumnIds \cup {"x"}] : n \in 0..MaxNewOrder}

\* columns locked, unlocked and removed
NextColumnLock ==
    \/ ColumnInitialize(ColumnInputs, <<>>)
    \/ \E columnId \in ColumnIds, position \in {"left", "right"} :
          LockColumn(columnId, position)
    \/ \E columnId \in ColumnIds : UnlockColumn(columnId)
    \/ RemoveColumn("a")

SpecColumnLock == Init /\ [][NextColumnLock]_vars

\* columns given a width, hidden, locked and removed
NextColumnRemove ==
    \/ \E groups \in {<<>>, GroupInputs} : ColumnInitialize(ColumnInputs, groups)
    \/ UpdateColumnWidth("b", 200)
    \/ \E columnId \in {"a", "b"} : HideColumn(columnId)
    \/ ShowColumn("a")
    \/ LockColumn("a", "left")
    \/ LockColumn("b", "right")
    \/ \E columnId \in ColumnIds : RemoveColumn(columnId)

SpecColumnRemove == Init /\ [][NextColumnRemove]_vars

\* columns reordered, moved and removed
NextColumnOrder ==
    \/ ColumnInitialize(ColumnInputs, <<>>)
    \/ \E newOrder \in NewOrders : ReorderColumns(newOrder)
    \/ \E columnId \in ColumnIds, newIndex \in 0..2 : MoveColumn(columnId, newIndex)
    \/ RemoveColumn("c")
    \/ \E position \in {-1, 0} : AddColumn(DynamicColumn("c", 0), position)

SpecColumnOrder == Init /\ [][NextColumnOrder]_vars

\* the same columns with column b flagged hidden, and two groups that share
\* child b
FlaggedInputs == << DynamicColumn("a", 100), HiddenColumn("b", 0), DynamicColumn("c", 120) >>
SharedGroups == << ColumnGroup("g", <<"a", "b">>), ColumnGroup("h", <<"b", "c">>) >>

\* columns hidden, shown, locked, unlocked and moved, with and without groups
NextColumnView ==
    \/ \E cols \in {ColumnInputs, FlaggedInputs}, groups \in {GroupInputs, SharedGroups} :
          ColumnInitialize(cols, groups)
    \/ \E columnId \in {"a", "b"} : HideColumn(columnId)
    \/ \E columnId \in {"a", "b"} : ShowColumn(columnId)
    \/ \E columnId \in ColumnIds, position \in {"left", "right"} :
          LockColumn(columnId, position)
    \/ \E columnId \in {"a", "c"} : UnlockColumn(columnId)
    \/ MoveColumn("c", 0)

SpecColumnView == Init /\ [][NextColumnView]_vars

(***************************************************************************)
(* WebSocketDataSourceAdapter.  A socket is its readyState; the browser    *)
(* delivers its open, error and close events as steps of their own.        *)
(***************************************************************************)
DefaultMaxReconnectAttempts == 5

\* the sockets one adapter may make
MaxSockets == 3

\* scheduleReconnect(): a new timer, whose handle replaces the stored one
scheduleReconnect(a) ==
    LET maxAttempts == IF a.maxReconnectAttempts = 0 THEN DefaultMaxReconnectAttempts
                       ELSE a.maxReconnectAttempts
        handle == a.reconnectTimer + 1
    IN  IF ~a.reconnect THEN a
        ELSE IF a.reconnectAttempts >= maxAttempts THEN a
        ELSE [a EXCEPT !.reconnectTimer = handle, !.timers = @ \cup {handle}]

\* connect(): new WebSocket(url) throws on a url it cannot parse, and the
\* catch block schedules a reconnect
connect(a) ==
    IF a.url = "bad" THEN scheduleReconnect(a)
    ELSE [a EXCEPT !.sockets = Append(@, "connecting"),
                   !.ws = Len(a.sockets) + 1,
                   !.connectedAfter = @ \/ a.disconnected]

\* new WebSocketDataSourceAdapter(config)
AdapterConstruct(url, reconnect, maxReconnectAttempts) ==
    /\ ~adapter.constructed
    /\ adapter' = connect([adapter EXCEPT !.constructed = TRUE, !.url = url,
                                          !.reconnect = reconnect,
                                          !.maxReconnectAttempts = maxReconnectAttempts])
    /\ UNCHANGED notadapter

\* ws.onopen
SocketOpen(i) ==
    /\ i \in 1..Len(adapter.sockets)
    /\ adapter.sockets[i] = "connecting"
    /\ adapter' = [adapter EXCEPT !.sockets[i] = "open", !.connected = TRUE,
                                  !.reconnectAttempts = 0]
    /\ UNCHANGED notadapter

\* ws.onerror
SocketError(i) ==
    /\ i \in 1..Len(adapter.sockets)
    /\ adapter.sockets[i] \in {"connecting", "open"}
    /\ adapter' = [adapter EXCEPT !.connected = FALSE]
    /\ UNCHANGED notadapter

\* ws.onclose: the close event of a socket that failed to connect, that the
\* server closed, or that close() was called on
SocketClose(i) ==
    /\ i \in 1..Len(adapter.sockets)
    /\ adapter.sockets[i] \in {"connecting", "open", "closing"}
    /\ adapter' = scheduleReconnect([adapter EXCEPT !.sockets[i] = "closed",
                                                    !.connected = FALSE])
    /\ UNCHANGED notadapter

\* the callback of a pending reconnect timer
ReconnectTimerFire(handle) ==
    /\ handle \in adapter.timers
    /\ Len(adapter.sockets) < MaxSockets
    /\ adapter' = connect([adapter EXCEPT !.timers = @ \ {handle},
                                          !.reconnectAttempts = @ + 1])
    /\ UNCHANGED notadapter

\* disconnect(): clearTimeout(reconnectTimer); ws?.close(); ws = null
disconnect(a) ==
    [a EXCEPT !.timers = IF a.reconnectTimer # 0 THEN @ \ {a.reconnectTimer} ELSE @,
              !.sockets = IF a.ws # 0 /\ a.sockets[a.ws] \in {"connecting", "open"}
                          THEN [@ EXCEPT ![a.ws] = "closing"] ELSE @,
              !.ws = 0,
              !.disconnected = TRUE]

Disconnect ==
    /\ adapter.constructed
    /\ adapter' = disconnect(adapter)
    /\ UNCHANGED notadapter

NextAdapter ==
    \/ \E url \in {"ok", "bad"}, reconnect \in BOOLEAN, maxReconnectAttempts \in 0..2 :
          AdapterConstruct(url, reconnect, maxReconnectAttempts)
    \/ \E i \in 1..MaxSockets : SocketOpen(i)
    \/ \E i \in 1..MaxSockets : SocketError(i)
    \/ \E i \in 1..MaxSockets : SocketClose(i)
    \/ \E handle \in adapter.timers : ReconnectTimerFire(handle)
    \/ Disconnect

SpecAdapter == Init /\ [][NextAdapter]_vars

(***************************************************************************)
(* Properties.                                                             *)
(***************************************************************************)
Range(seq) == {seq[i] : i \in 1..Len(seq)}
IdsOf(rs) == [i \in 1..Len(rs) |-> rs[i].id]

\* selectAll and indeterminate agree with selectedIds and the row set
SelectionConsistent ==
    /\ selection.selectAll <=> (\A i \in 1..Len(rows) : rows[i].id \in Range(selection.selectedIds))
    /\ selection.indeterminate <=> (selection.selectedIds # <<>> /\ ~selection.selectAll)

\* C1 as stated: after any sequence of selectRow / selectAllRows calls,
\* selectAll is true iff selectedIds contains every id of the unfiltered
\* row set, and indeterminate = (selectedIds non-empty and not selectAll).
C1_SelectionInvariantAnyRows == selHist = "only" => SelectionConsistent

\* C1, amended: the same, for a grid whose row set is not empty (before
\* the first call too).
C1_SelectionInvariant == (selHist # "other" /\ Len(rows) > 0) => SelectionConsistent

C1_Witness ==
    /\ selHist = "only"
    /\ selection.mode = "multiple"
    /\ Len(rows) = 2
    /\ Len(selection.selectedIds) = 2
    /\ selection.selectAll

\* the page processedRows() returns when currentPage is p
PageAt(p) == applyPagination(filteredSorted, options,
                             [updatePaginationTotals(pagination, Len(filteredSorted))
                                EXCEPT !.currentPage = p])

RECURSIVE ConcatPages(_)
ConcatPages(n) == IF n = 0 THEN <<>> ELSE ConcatPages(n - 1) \o PageAt(n)

\* C2: with pagination enabled, the pages 1..totalPages of processedRows,
\* one after the other, are exactly the filtered and sorted rows
\* (pageSize >= 1).
C2_PaginationCoverage ==
    options.enablePagination =>
        ConcatPages(updatePaginationTotals(pagination, Len(filteredSorted)).totalPages)
            = filteredSorted

C2_Witness ==
    /\ options.enablePagination
    /\ fresh
    /\ pagination.pageSize = 2
    /\ pagination.totalPages = 3
    /\ Len(filteredSorted) = 5
    /\ Len(sort) = 2

\* the number of rows that pass every active filter
PassingCount ==
    Cardinality({i \in 1..Len(rows) : \A k \in 1..Len(filters) : FilterPasses(rows[i], filters[k], columns)})

\* n = ceil(a / b), for b >= 1
IsCeilDiv(n, a, b) == n * b >= a /\ (n - 1) * b < a /\ n >= 0

KeyComparison(a, b, k) ==
    LET c == FindColumn(columns, sort[k].columnId)
        raw == IF c = 0 THEN 0
               ELSE IF columns[c].sortCompareFn
                    THEN ColumnSortCompareFn(getCellValue(a.data, columns[c]),
                                             getCellValue(b.data, columns[c]))
                    ELSE defaultSort(getCellValue(a.data, columns[c]),
                                     getCellValue(b.data, columns[c]))
    IN  IF sort[k].direction = "desc" THEN -raw ELSE raw

\* the first non-zero key comparison, 0 when the rows tie on every key
FirstDecidingKey(a, b) ==
    IF \E k \in 1..Len(sort) : KeyComparison(a, b, k) # 0
    THEN LET k0 == CHOOSE k \in 1..Len(sort) :
                        /\ KeyComparison(a, b, k) # 0
                        /\ \A j \in 1..(k - 1) : KeyComparison(a, b, j) = 0
         IN  KeyComparison(a, b, k0)
    ELSE 0

\* C4: the processed order is a stable multi-key sort of the filtered
\* rows: the first sort key with a non-zero comparison decides every pair
\* ('desc' flips the sign), rows that tie on every key keep the order they
\* had before sorting, and the records {1,30}, {2,25}, {3,25} sorted by
\* age asc then id asc give ids 2, 3, 1.
C4_StableMultiKeySort ==
    LET before == applyFilters(rows, filters, columns)
        after == filteredSorted
    IN  /\ Len(after) = Len(before)
        /\ Range(after) = Range(before)
        /\ \A i, j \in 1..Len(after) :
                i < j => /\ FirstDecidingKey(after[i], after[j]) <= 0
                         /\ FirstDecidingKey(after[i], after[j]) = 0
                                => after[i].index < after[j].index
        /\ ( /\ data = [i \in 1..3 |-> RecordA(i)]
             /\ filters = <<>>
             /\ sort = << [columnId |-> "age", direction |-> "asc"],
                          [columnId |-> "id", direction |-> "asc"] >> )
                => IdsOf(after) = <<Num(2), Num(3), Num(1)>>

C4_Witness ==
    /\ data = [i \in 1..3 |-> RecordA(i)]
    /\ filters = <<>>
    /\ sort = << [columnId |-> "age", direction |-> "asc"],
                 [columnId |-> "id", direction |-> "asc"] >>
    /\ fresh
    /\ IdsOf(processedRows) = <<Num(2), Num(3), Num(1)>>

\* C5: the filtered set holds exactly the rows that pass every active
\* filter, in their order; totalItems and totalPages come from its size;
\* on ages 30, 25, 25 the filter age greaterThan 25 leaves the record
\* with id 1, totalItems = 1 and totalPages = 1.
C5_FilteredSet ==
    LET kept == applyFilters(rows, filters, columns)
    IN  /\ \A i \in 1..Len(rows) :
                rows[i] \in Range(kept)
                    <=> \A k \in 1..Len(filters) : FilterPasses(rows[i], filters[k], columns)
        /\ \A i, j \in 1..Len(kept) : i < j => kept[i].index < kept[j].index
        /\ fresh => /\ pagination.totalItems = Len(kept)
                    /\ IsCeilDiv(pagination.totalPages, Len(kept), pagination.pageSize)
        /\ ( /\ data = [i \in 1..3 |-> RecordA(i)]
             /\ filters = <<FilterArgs("age", Num(25), "greaterThan")>> )
                => /\ IdsOf(kept) = <<Num(1)>>
                   /\ fresh => (pagination.totalItems = 1 /\ pagination.totalPages = 1)

C5_Witness ==
    /\ data = [i \in 1..3 |-> RecordA(i)]
    /\ filters = <<FilterArgs("age", Num(25), "greaterThan")>>
    /\ fresh
    /\ pagination.totalItems = 1
    /\ pagination.totalPages = 1

\* the filters of the list on column c
FiltersOn(c) == {i \in 1..Len(filters) : filters[i].columnId = c}

\* C6: after any sequence of setFilter calls with filtering enabled, the
\* list holds for each column exactly one filter, equal to the last
\* setFilter of the column, when that had a non-empty value, and none when
\* it had null, undefined or ''; and setting the same filter a second
\* time changes nothing.
C6_SetFilterReplaces ==
    /\ \A c \in FilterColumnIds :
            IF lastSet[c].set
            THEN /\ Cardinality(FiltersOn(c)) = 1
                 /\ \A i \in FiltersOn(c) :
                        filters[i] = FilterArgs(c, lastSet[c].value, lastSet[c].operator)
            ELSE FiltersOn(c) = {}
    /\ \A f \in FilterInputs :
            LET op == IF f.operator = "" THEN "contains" ELSE f.operator
                once == SetFilterUpdate(filters, f.columnId, f.value, op)
            IN  SetFilterUpdate(once, f.columnId, f.value, op) = once

C6_Witness ==
    /\ lastSet["age"].set
    /\ lastSet["age"].value = Str(<<"3">>)
    /\ ~lastSet["name"].set
    /\ lastSet["senior"].set
    /\ filters = << FilterArgs("age", Str(<<"3">>), "startsWith"),
                    FilterArgs("senior", Num(1), "custom") >>

\* C7 as stated: no two rows of the row collection share an id.
C7_RowIdsUnique ==
    \A i, j \in 1..Len(rows) : i # j => rows[i].id # rows[j].id

\* the totalPages of the rows that pass the filters now
CurrentTotalPages == CeilDiv(PassingCount, pagination.pageSize)

\* C8 as stated: setPage(page) sets currentPage to page iff
\* 1 <= page <= totalPages of the current filtered set, and otherwise
\* leaves the grid state unchanged.
C8_SetPageAgainstFilteredSet ==
    [][\A page \in 0..MaxPage :
            SetPage(page) =>
                IF page >= 1 /\ page <= CurrentTotalPages
                THEN pagination' = [pagination EXCEPT !.currentPage = page]
                ELSE UNCHANGED svars]_vars

\* C9 as stated: whenever the filter list changes, currentPage is 1 in the
\* resulting state.
C9_FilterChangeResetsPage ==
    [][filters' # filters => pagination'.currentPage = 1]_vars

\* C10: with sorting enabled, sortBy(columnId) without a direction gives
\* an unsorted column asc and flips the direction of a sorted one
\* (asc -> desc, desc -> asc); the column is never left unsorted.
C10_SortToggle ==
    (lastSort.enabled /\ lastSort.columnId # "" /\ lastSort.direction = "") =>
        getSortDirection(sort, lastSort.columnId)
            = (IF lastSort.before = "asc" THEN "desc" ELSE "asc")

C10_Witness ==
    /\ lastSort.enabled
    /\ lastSort.columnId = "age"
    /\ lastSort.direction = ""
    /\ lastSort.before = "desc"
    /\ getSortDirection(sort, "age") = "asc"
    /\ Len(sort) = 2

\* C11 as stated: whenever multiSort is false the sort list has at most
\* one entry, after any sequence of initialize, sortBy, clearSort and
\* importState.
C11_SingleSortAtMostOne == ~options.multiSort => Len(sort) <= 1

\* no column appears twice in the list
NoColumnTwice(sorts) ==
    \A i, j \in 1..Len(sorts) : sorts[i].columnId = sorts[j].columnId => i = j

\* C12: in multi-sort mode sortBy on a column of the list changes the
\* direction of that entry alone and keeps the order and the other
\* entries; sortBy on a column not in the list appends one entry for it and
\* keeps the entries there were; no column ever appears twice.
C12_MultiSortInPlace ==
    [][/\ \A c \in SortColumnIds, dir \in {"", "asc", "desc"} :
            (options.enableSorting /\ options.multiSort /\ SortBy(c, dir)) =>
                IF \E i \in 1..Len(sort) : sort[i].columnId = c
                THEN /\ Len(sort') = Len(sort)
                     /\ \A k \in 1..Len(sort) :
                            /\ sort'[k].columnId = sort[k].columnId
                            /\ sort[k].columnId # c => sort'[k] = sort[k]
                ELSE /\ Len(sort') = Len(sort) + 1
                     /\ SubSeq(sort', 1, Len(sort)) = sort
                     /\ sort'[Len(sort')].columnId = c
       /\ NoColumnTwice(sort')]_vars

C12_Witness ==
    /\ options.multiSort
    /\ lastSort.enabled
    /\ lastSort.columnId = "age"
    /\ lastSort.before = "asc"
    /\ Len(sort) = 3
    /\ sort[1] = [columnId |-> "age", direction |-> "desc"]
    /\ sort[3].columnId = "id"

\* C13 as stated: whenever the selection mode is 'single', selectedIds has
\* at most one element, after any sequence of initialize, selectRow,
\* selectAllRows, toggleRowSelection, clearSelection and importState.
C13_SingleSelectAtMostOne ==
    selection.mode = "single" => Len(selection.selectedIds) <= 1

\* C14 as stated: in mode 'single', selectRow(id, true) makes the
\* selection exactly id, whatever was selected before, and
\* selectRow(id, false) leaves selectedIds empty.
C14_SingleSelectDeselectClears ==
    [][\A id \in RowIdInputs, selected \in BOOLEAN :
            (selection.mode = "single" /\ SelectRow(id, selected)) =>
                selection'.selectedIds = IF selected THEN <<id>> ELSE <<>>]_vars

\* C14, amended: in mode 'single', selectRow(id, true) makes the
\* selection exactly id, whatever was selected before, and
\* selectRow(id, false) takes id out of selectedIds and keeps every other
\* id, so that selectedIds is empty after it iff no other id was selected.
C14_SingleSelectReplaces ==
    [][\A id \in RowIdInputs, selected \in BOOLEAN :
            (selection.mode = "single" /\ SelectRow(id, selected)) =>
                IF selected
                THEN selection'.selectedIds = <<id>>
                ELSE /\ Range(selection'.selectedIds)
                            = Range(selection.selectedIds) \ {id}
                     /\ Len(selection'.selectedIds) <= Len(selection.selectedIds)
                     /\ selection'.selectedIds = <<>>
                            <=> Range(selection.selectedIds) \subseteq {id}]_vars

C14_Witness ==
    /\ selHist = "only"
    /\ selection.mode = "single"
    /\ selection.selectedIds = <<Num(2)>>
    /\ Len(selection.selectedRows) = 1
    /\ selection.selectedRows[1].id = Num(2)

\* C15 as stated: importState(exportState()) is a no-op: sort list, filter
\* list, pagination and selection after it equal those before it, in
\* every reachable state.
C15_RoundTrip ==
    [][ImportState(exportState) => UNCHANGED <<sort, filters, pagination, selection>>]_vars

\* C17 as stated: after initialize (no persisted snapshot) the sort list
\* and the filter list are empty, the current page is 1 and nothing is
\* selected, whatever they were before the call.
C17_InitializeResets ==
    [][\A d \in DataA, o \in {DefaultOptions, MultiSortOptions},
          mode \in {"single", "multiple"} :
            Initialize(d, GridColumns, o, 0, mode) =>
                /\ sort' = <<>>
                /\ filters' = <<>>
                /\ pagination'.currentPage = 1
                /\ selection'.selectedIds = <<>>
                /\ selection'.selectedRows = <<>>]_vars

\* an import that fails: the text is not parseable JSON, or what it
\* parses to is no object with a part of the state (null, a number, a
\* string, a boolean, an array, {})
ImportFails(json) == json.kind # "object" \/ json.has = {}

C18_VisibleBounds ==
    /\ 0 <= visibleStartIndex(virt)
    /\ visibleStartIndex(virt) <= visibleEndIndex(virt)
    /\ visibleEndIndex(virt) <= Max(virt.totalItems - 1, 0)

\* containerHeight 400, itemHeight 40, overscan 5, scrollTop 0, 100 items
ScenarioSignals ==
    [containerHeight |-> 400, itemHeight |-> 40, overscan |-> 5,
     scrollTop |-> 0, totalItems |-> 100]

\* C19 as stated: with these signals visibleStartIndex = 0,
\* visibleEndIndex = 19, totalHeight = 4000 and offsetY = 0.
C19_ScenarioEnd19 ==
    virt = ScenarioSignals =>
        /\ visibleStartIndex(virt) = 0
        /\ visibleEndIndex(virt) = 19
        /\ totalHeight(virt) = 4000
        /\ offsetY(virt) = 0

\* C19, amended: with these signals visibleStartIndex = 0,
\* visibleEndIndex = min(99, 0 + 10 + 10) = 20, totalHeight = 4000 and
\* offsetY = 0.
C19_Scenario ==
    virt = ScenarioSignals =>
        /\ visibleStartIndex(virt) = 0
        /\ visibleEndIndex(virt) = 20
        /\ totalHeight(virt) = 4000
        /\ offsetY(virt) = 0

C19_Witness ==
    /\ virt = ScenarioSignals
    /\ visibleItems(virt) = 10
    /\ visibleEndIndex(virt) < virt.totalItems - 1

\* C20: scrollToItemIfNeeded(index) returns null and leaves scrollTop as
\* it is when visibleStartIndex <= index <= visibleEndIndex; otherwise it
\* sets scrollTop to index * itemHeight and returns it, as
\* scrollToItem(index) does.
C20_ScrollIfNeeded ==
    [][\A index \in 0..MaxIndex :
            ScrollToItemIfNeeded(index) =>
                IF visibleStartIndex(virt) <= index /\ index <= visibleEndIndex(virt)
                THEN /\ lastCall'.result = Null
                     /\ virt' = virt
                ELSE /\ virt' = [virt EXCEPT !.scrollTop = index * virt.itemHeight]
                     /\ lastCall'.result = Num(index * virt.itemHeight)
                     /\ ScrollPosition(virt, index) = index * virt.itemHeight]_vars

C20_Witness ==
    /\ lastCall.op = "scrollToItemIfNeeded"
    /\ lastCall.within
    /\ lastCall.result = Null
    /\ virt.scrollTop > 0
    /\ lastCall.index > 0

\* C21: applyFilters keeps exactly the rows for which every filter with no
\* condition or condition 'and' passes and, when there is a filter with
\* condition 'or', at least one of those passes (no global search set).
PassesAdvanced(row) ==
    LET fs == smart.advancedFilters
    IN  /\ \A i \in 1..Len(fs) :
              fs[i].condition \in {"", "and"} => evaluateFilter(row, fs[i])
        /\ \/ ~\E i \in 1..Len(fs) : fs[i].condition = "or"
           \/ \E i \in 1..Len(fs) : fs[i].condition = "or" /\ evaluateFilter(row, fs[i])

C21_AndOrFilters ==
    (lastSmart.op = "applyFilters" /\ smart.globalSearch = <<>>)
        => lastSmart.result = SelectSeq(lastSmart.data, PassesAdvanced)

\* a row is kept although one of two OR filters rejects it
C21_Witness ==
    /\ lastSmart.op = "applyFilters"
    /\ \E r \in 1..Len(lastSmart.result), i, j \in 1..Len(smart.advancedFilters) :
          /\ smart.advancedFilters[i].condition = "or"
          /\ smart.advancedFilters[j].condition = "or"
          /\ ~evaluateFilter(lastSmart.result[r], smart.advancedFilters[i])
          /\ evaluateFilter(lastSmart.result[r], smart.advancedFilters[j])
    /\ Len(lastSmart.result) < Len(lastSmart.data)

\* C22: after any sequence of addFilter, updateFilter, removeFilter,
\* clearColumnFilters and clearAllFilters calls the filter list holds at
\* most one filter per (columnId, operator) pair.
C22_OneFilterPerPair ==
    \A i, j \in 1..Len(smart.advancedFilters) :
        (/\ smart.advancedFilters[i].columnId = smart.advancedFilters[j].columnId
         /\ smart.advancedFilters[i].operator = smart.advancedFilters[j].operator)
            => i = j

\* C26: for a row whose cell is null or undefined, isEmpty passes,
\* isNotEmpty rejects, and equals, contains, startsWith, endsWith,
\* greaterThan, lessThan, between, in, notIn and regex reject the row; a
\* list of one such filter keeps the row exactly when it is isEmpty.
SmartOperators == {"equals", "contains", "startsWith", "endsWith", "greaterThan",
                   "lessThan", "between", "in", "notIn", "regex", "isEmpty",
                   "isNotEmpty"}

InResult(row) == \E r \in 1..Len(lastSmart.result) : lastSmart.result[r] = row

C26_NullCells ==
    lastSmart.op = "applyFilters" =>
        \A r \in 1..Len(lastSmart.data), i \in 1..Len(smart.advancedFilters) :
            LET row == lastSmart.data[r]
                f == smart.advancedFilters[i]
            IN  (IsNullish(Field(row, f.columnId)) /\ f.operator \in SmartOperators) =>
                    /\ evaluateFilter(row, f) <=> (f.operator = "isEmpty")
                    /\ (Len(smart.advancedFilters) = 1 /\ smart.globalSearch = <<>>) =>
                           (InResult(row) <=> (f.operator = "isEmpty"))

\* a row with a null age is dropped by a between filter whose range holds
\* Number(null) = 0
C26_Witness ==
    /\ lastSmart.op = "applyFilters"
    /\ Len(smart.advancedFilters) = 1
    /\ smart.advancedFilters[1].operator = "between"
    /\ \E r \in 1..Len(lastSmart.data) :
          /\ Field(lastSmart.data[r], "age") = Null
          /\ ~InResult(lastSmart.data[r])

\* C23: setGlobalSearch(term) with a non-empty term shorter than the
\* configured minLength does not change the effective global search term,
\* and setGlobalSearch('') leaves the effective term empty as soon as the
\* call returns.
C23_MinLengthAndClear ==
    [][lastSmart'.op = "setGlobalSearch" =>
          /\ (Len(lastSmart'.term) > 0 /\ Len(lastSmart'.term) < MinLength(smart))
                => smart'.globalSearch = smart.globalSearch
          /\ lastSmart'.term = <<>> => smart'.globalSearch = <<>>]_vars

\* C24: after any sequence of saveFilterPreset, setDefaultPreset,
\* updateFilterPreset and deleteFilterPreset calls at most one filter
\* preset is flagged default.
C24_OneDefaultPreset ==
    \A i, j \in 1..Len(smart.filterPresets) :
        (smart.filterPresets[i].isDefault /\ smart.filterPresets[j].isDefault) => i = j

\* C25: when loadFilterPreset(id) returns, the advanced filter list and the
\* effective global search term are exactly what they were when that
\* preset was saved, whatever they were before the call.
C25_PresetSnapshot ==
    (lastSmart.op = "loadFilterPreset" /\ lastSmart.found) =>
        /\ smart.advancedFilters = saved[lastSmart.id].filters
        /\ smart.globalSearch = saved[lastSmart.id].global

\* a preset saved with a filter and a search term is loaded over other
\* filters and another term
C25_Witness ==
    /\ lastSmart.op = "loadFilterPreset"
    /\ lastSmart.found
    /\ lastSmart.differed
    /\ saved[lastSmart.id].filters # <<>>
    /\ saved[lastSmart.id].global # <<>>
    /\ smart.advancedFilters = saved[lastSmart.id].filters

\* C27: after any sequence of lockColumn and unlockColumn calls no column
\* id is in both the locked-left and the locked-right list and none is
\* twice in one list; after lockColumn(id, side) the id is locked on that
\* side only.
NoIdTwice(seq) == \A i, j \in 1..Len(seq) : seq[i] = seq[j] => i = j

C27_LockListsDisjoint ==
    /\ NoIdTwice(colman.lockedColumns.left \o colman.lockedColumns.right)
    /\ lastColumn.op = "lockColumn" =>
          /\ IncludesId(colman.lockedColumns.left, lastColumn.columnId)
                <=> lastColumn.position = "left"
          /\ IncludesId(colman.lockedColumns.right, lastColumn.columnId)
                <=> lastColumn.position = "right"

\* a column locked left is locked right while another stays locked left
C27_Witness ==
    /\ lastColumn.op = "lockColumn"
    /\ lastColumn.was = "left"
    /\ lastColumn.position = "right"
    /\ Len(colman.lockedColumns.right) = 2
    /\ colman.lockedColumns.right[2] = lastColumn.columnId
    /\ Len(colman.lockedColumns.left) = 1

\* C28: after removeColumn(id) the id is no longer in the column list, the
\* order list, the width map, the locked-left or locked-right lists, the
\* hidden list, or the child list of any column group.
C28_RemovePurges ==
    lastColumn.op = "removeColumn" =>
        LET id == lastColumn.columnId
        IN  /\ \A i \in 1..Len(colman.columns) : colman.columns[i].id # id
            /\ ~IncludesId(colman.columnOrder, id)
            /\ id \notin DOMAIN colman.columnWidths
            /\ ~IncludesId(colman.lockedColumns.left, id)
            /\ ~IncludesId(colman.lockedColumns.right, id)
            /\ ~IncludesId(colman.hiddenColumns, id)
            /\ \A g \in 1..Len(colman.columnGroups) :
                  ~IncludesId(colman.columnGroups[g].children, id)

\* C29: reorderColumns(newOrder) emits exactly one reorder event for each
\* column whose position in the order list changed, carrying its old and
\* its new index, and no event for a column whose position did not change.
MovedColumns ==
    {id \in Range(lastColumn.before) \cup Range(colman.columnOrder) :
        IndexOfId(lastColumn.before, id) # IndexOfId(colman.columnOrder, id)}

C29_ReorderEvents ==
    lastColumn.op = "reorderColumns" =>
        /\ Range(lastColumn.events) =
              {[columnId |-> id, newIndex |-> IndexOfId(colman.columnOrder, id),
                oldIndex |-> IndexOfId(lastColumn.before, id)] : id \in MovedColumns}
        /\ Len(lastColumn.events) = Cardinality(MovedColumns)

\* C30: after reorderColumns(newOrder) the order list is the ids of
\* newOrder that exist as columns, in newOrder's sequence, followed by the
\* existing column ids missing from newOrder in their previous relative
\* order.
C30_ReorderOrder ==
    lastColumn.op = "reorderColumns" =>
        LET Exists(id) == \E i \in 1..Len(colman.columns) : colman.columns[i].id = id
            Missing(id) == Exists(id) /\ ~IncludesId(lastColumn.newOrder, id)
        IN  colman.columnOrder = SelectSeq(lastColumn.newOrder, Exists)
                                 \o SelectSeq(lastColumn.before, Missing)

\* C31: moveColumn(id, newIndex) changes nothing and emits no event when id
\* is not in the order list or already sits at newIndex; otherwise, for
\* 0 <= newIndex < length, id ends at position newIndex, the other ids keep
\* their relative order, and exactly one reorder event {id, newIndex,
\* oldIndex} is emitted.
C31_MoveColumn ==
    lastColumn.op = "moveColumn" =>
        LET id == lastColumn.columnId
            n == lastColumn.newIndex
            before == lastColumn.before
            after == colman.columnOrder
        IN  IF ~IncludesId(before, id) \/ (n < Len(before) /\ before[n + 1] = id)
            THEN after = before /\ lastColumn.events = <<>>
            ELSE n < Len(before) =>
                    /\ Len(after) = Len(before)
                    /\ after[n + 1] = id
                    /\ WithoutId(after, id) = WithoutId(before, id)
                    /\ lastColumn.events = <<[columnId |-> id, newIndex |-> n,
                                              oldIndex |-> IndexOfId(before, id)]>>

\* C38: after any sequence of initialize, addColumn, removeColumn,
\* reorderColumns and moveColumn calls the order list is a permutation of
\* the ids of the current columns (every column id exactly once, no other
\* id), so orderedColumns lists every column exactly once.
C38_OrderIsPermutation ==
    /\ NoIdTwice(colman.columnOrder)
    /\ Range(colman.columnOrder) = {colman.columns[i].id : i \in 1..Len(colman.columns)}
    /\ Len(orderedColumns(colman)) = Len(colman.columns)
    /\ \A i \in 1..Len(colman.columns) :
          \E j \in 1..Len(colman.columns) : orderedColumns(colman)[j] = colman.columns[i]

ColumnIdsOf(cols) == {cols[i].id : i \in 1..Len(cols)}
IsHiddenColumn(cm, col) == IncludesId(cm.hiddenColumns, col.id) \/ IsFlaggedHidden(col)

C33_OneBucketPerColumn ==
    LET buckets == getGroupedColumns(colman)
        visible == visibleColumns(colman)
        In(cols, col) == \E i \in 1..Len(cols) : cols[i] = col
        FirstGroup(col) ==
            LET Has(g) == IncludesId(g.children, col.id)
                having == SelectSeq(colman.columnGroups, Has)
            IN  IF having = <<>> THEN "" ELSE having[1].id
    IN  \A i \in 1..Len(visible) :
           \A b \in 1..Len(buckets) :
              In(buckets[b].columns, visible[i]) <=> buckets[b].group = FirstGroup(visible[i])

\* every row of processedRows is flagged selected exactly when its id is in
\* selectedIds
FlagsFollowIds ==
    \A i \in 1..Len(processedRows) :
        processedRows[i].selected <=> SeqContains(selection.selectedIds, processedRows[i].id)

\* C34: selection survives re-filtering: setFilter, clearFilter, sortBy,
\* clearSort, setPage, setPageSize and refresh leave selectedIds unchanged,
\* and a selected row that was filtered out and reappears in processedRows
\* is still flagged selected.
C34_SelectionSurvives ==
    [][ /\ ( \/ SetFilter("age", Num(25), "greaterThan")
             \/ ClearFilter("")
             \/ SortBy("age", "desc")
             \/ ClearSort("")
             \/ SetPage(2)
             \/ SetPageSize(1)
             \/ Refresh )
           => selection'.selectedIds = selection.selectedIds
        /\ FlagsFollowIds ]_vars

\* clearFilter has brought back a row that was selected and filtered out,
\* and the row is flagged selected
C34_Witness ==
    /\ lastGrid.op = "clearFilter"
    /\ \E i \in 1..Len(processedRows) :
          processedRows[i].selected /\ processedRows[i].id \in lastGrid.absent

\* C35: selectRow in selection mode 'none' and selectAllRows in a mode
\* other than 'multiple' leave selectedIds, selectedRows, selectAll and
\* indeterminate unchanged.
C35_SelectionNoOp ==
    [][ ( \/ /\ selection.mode = "none"
             /\ \E id \in {Num(1), Num(2)} : SelectRow(id, TRUE)
          \/ /\ selection.mode # "multiple"
             /\ \E selected \in BOOLEAN : SelectAllRows(selected) )
        => UNCHANGED selection ]_vars

\* selectAllRows was called in mode 'single' with one of the three rows
\* selected
C35_Witness ==
    /\ lastGrid.op = "selectAllRows"
    /\ lastGrid.mode = "single"
    /\ Len(rows) = 3
    /\ Len(selection.selectedIds) = 1

\* C36: with sorting disabled sortBy leaves the whole grid state unchanged,
\* and with filtering disabled setFilter leaves the whole grid state
\* unchanged, currentPage included.
C36_DisabledNoOp ==
    [][ ( \/ ~options.enableSorting /\ SortBy("age", "desc")
          \/ ~options.enableFiltering /\ SetFilter("age", Num(25), "greaterThan") )
        => UNCHANGED svars ]_vars

\* setFilter was called with filtering disabled while the grid stood on
\* page 2
C36_Witness ==
    /\ lastGrid.op = "setFilter"
    /\ ~lastGrid.filtering
    /\ pagination.currentPage = 2

\* C39: after any sequence of initialize, setFilter, clearFilter, setPage,
\* setPageSize and sortBy calls, 1 <= currentPage <= max(1, totalPages) for
\* the current filtered set, so processedRows is not empty when at least
\* one row passes the filters (pagination enabled).
C39_PageWithinFilteredSet ==
    options.enablePagination =>
        LET totalPages == CeilDiv(Len(filteredSorted), pagination.pageSize)
        IN  /\ pagination.currentPage >= 1
            /\ pagination.currentPage <= Max(1, totalPages)
            /\ Len(filteredSorted) > 0 => Len(processedRows) > 0

\* C37: global search is eventually consistent with the last input: once
\* the debounce delay has elapsed with no further call (initialize has
\* subscribed and no timer is pending), the effective search term is the
\* term of the most recent accepted setGlobalSearch, clearGlobalSearch or
\* clearAllFilters call, the value the subject holds.
C37_SearchEventuallyConsistent ==
    ( /\ Len(smart.subscriptions) > 0
      /\ \A i \in 1..Len(smart.subscriptions) : ~smart.subscriptions[i].pending )
    => smart.globalSearch = smart.subject

\* C40: after disconnect() has returned the adapter never opens a new
\* connection: neither a reconnect timer pending at the call nor the close
\* event of the socket being closed leads to a later connect(), even with
\* reconnect enabled and attempts remaining.
C40_NoConnectAfterDisconnect == ~adapter.connectedAfter

=============================================================================
